---- MODULE Spec2Model ----
(***************************************************************************)
(* Model of the Trio ensemble service: generation fan-out, acceptance      *)
(* voting (reply parsing, tallying, winner selection), the aggregation     *)
(* strategies and the three-model trio engine.                             *)
(*                                                                         *)
(* Python lists are modelled as sequences; Python indices are 0-based and  *)
(* are kept 0-based as values (candidate i is element i+1 of a sequence).  *)
(* A backend reply is a sequence of tokens; the regular expressions of the *)
(* source are modelled by what they match on that token sequence.          *)
(***************************************************************************)
EXTENDS Integers, Sequences, FiniteSets, TLC

(***************************************************************************)
(* Bounds of the model.                                                    *)
(***************************************************************************)
MaxCand == 2        \* candidates shown to a voter whose reply is parsed
MaxReplyLen == 5    \* tokens in a parsed voter reply
MaxTally == 3       \* candidates in a free-standing pair of tallies
MaxCount == 2       \* largest count in a free-standing pair of tallies

MaxEnsemble == 3    \* members of an ensemble handed to voting_completion
MaxMessages == 2    \* messages of a conversation
MaxRequests == 3    \* requests served by one process
LiveEnsemble == 2   \* members of an ensemble in the requests of SpecLive

VARIABLES
    pc,                 \* position of the operation under way
    n_cand,             \* len(responses): number of candidates
    result,             \* text returned by the voter's Backend Call
    vote,               \* (accepted, preferred) returned by get_voter_votes
    acceptance_counts,  \* tally of acceptances per candidate
    preference_counts,  \* tally of preferences per candidate
    winner_index,       \* index chosen by pick_winner / aggregate_acceptance
    entry,              \* the function the caller invoked
    ensemble_size,      \* len(ensemble)
    method,             \* aggregation_method
    judge_model,        \* judge_model argument ("none" for None)
    synthesize_model,   \* synthesize_model argument ("none" for None)
    gen,                \* per member: state of its generation Backend Call
    gather,             \* state of the asyncio.gather future being awaited
    completed,          \* the members in the order their calls settled
    valid_responses,    \* members with a non-empty response, in list order
    voter,              \* per candidate: state of its owner's voting call
    judge_call,         \* state of the judge's Backend Call
    synth_call,         \* state of the synthesize model's Backend Call
    agg_result,         \* the AggregationResult of the aggregation method
    agg_calls,          \* aggregation Backend Calls issued so far
    outcome,            \* what the invoked function returned or raised
    trio_nested,        \* the slot of the root trio that is a nested trio
    tpc,                \* per trio node: position of its trio_completion
    tcall,              \* per trio node and slot: the member's result
    tout,               \* per trio node: what trio_completion handed back
    request,            \* the ChatCompletionRequest of chat_completions
    http_status,        \* status code of the HTTP response (0: none yet)
    trio_models,        \* config._trio_models, the cached registry
    models_file,        \* the definitions in the trio models YAML file
    messages,           \* the conversation: the request's messages
    callee,             \* the member (EnsembleMember, TrioMember) called
    max_tokens,         \* the request's max_tokens
    temperature,        \* the request's temperature, in tenths
    call,               \* the arguments of the Backend Call issued
    question,           \* the question put into the aggregation prompts
    served,             \* requests chat_completions has finished with
    loads,              \* times get_trio_models has read the YAML file
    seen,               \* the registry each alias lookup got, in order
    vote_calls,         \* the get_voter_votes tasks created, in list order
    arrived             \* the voters in the order their replies arrived

parseVars == <<result, vote>>
tallyVars == <<acceptance_counts, preference_counts, winner_index>>
requestVars == <<entry, ensemble_size, method, judge_model, synthesize_model>>
nodeVars == <<gen, gather, completed, valid_responses, voter, judge_call,
              synth_call, agg_result, agg_calls, outcome>>

trioVars == <<trio_nested, tpc, tcall, tout>>
apiVars == <<request, http_status, trio_models, models_file>>
callVars == <<messages, callee, max_tokens, temperature, call, question>>
serveVars == <<served, loads, seen>>
voteVars == <<vote_calls, arrived>>

vars == <<pc, n_cand, parseVars, tallyVars, requestVars, nodeVars, trioVars,
          apiVars, callVars, serveVars, voteVars>>

(***************************************************************************)
(* Generic helpers.                                                        *)
(***************************************************************************)
\* element i (0-based) of a Python list
At(s, i) == s[i + 1]

\* the elements of a list, as a set
Elems(s) == {s[k] : k \in 1..Len(s)}

\* [0] * n
Zeros(n) == [k \in 1..n |-> 0]

\* all sequences over S of length at most len
SeqsUpTo(S, len) == UNION {[1..k -> S] : k \in 0..len}

(***************************************************************************)
(* Reply text.  A token is a marker "ACCEPTED:" / "PREFERRED:" (matched    *)
(* case-insensitively by the source), a newline, a run of digits with its  *)
(* integer value, or any other run of non-blank, non-digit text.  Blanks   *)
(* between tokens are implied.                                             *)
(***************************************************************************)
Marker(kind) == [kind |-> kind, val |-> 0]
Num(v) == [kind |-> "num", val |-> v]
NL == Marker("NL")
ACC == Marker("ACCEPTED")
PREF == Marker("PREFERRED")
W == Marker("W")

\* digit runs a reply may hold: 0, the valid numbers 1..n and one too large
Numerals(n) == {Num(v) : v \in 0..(n + 1)}

Tokens(n) == {ACC, PREF, NL, W} \cup Numerals(n)

\* fetch_completion returns content.strip(): a reply neither starts nor ends
\* with white space
Stripped(r) == Len(r) = 0 \/ (r[1] # NL /\ r[Len(r)] # NL)

Replies(n, len) == {r \in SeqsUpTo(Tokens(n), len) : Stripped(r)}

\* \s* : the first position at or after i that holds no newline
RECURSIVE SkipWs(_, _)
SkipWs(r, i) ==
    IF i <= Len(r) /\ r[i] = NL THEN SkipWs(r, i + 1) ELSE i

\* [^\n]+ : the last position of the line that starts at i
RECURSIVE LineEnd(_, _)
LineEnd(r, i) ==
    IF i + 1 <= Len(r) /\ r[i + 1] # NL THEN LineEnd(r, i + 1) ELSE i

\* re.search(r"ACCEPTED:\s*([^\n]+)", result, re.IGNORECASE): group(1), or
\* <<>> when nothing matches (a match always has a non-empty group)
RECURSIVE AcceptedGroupFrom(_, _)
AcceptedGroupFrom(r, i) ==
    IF i > Len(r) THEN <<>>
    ELSE IF r[i] = ACC /\ SkipWs(r, i + 1) <= Len(r)
         THEN LET j == SkipWs(r, i + 1)
              IN  SubSeq(r, j, LineEnd(r, j))
         ELSE AcceptedGroupFrom(r, i + 1)

\* re.findall(r"\d+", text) with int() applied: the digit runs, in order
IsNum(t) == t.kind = "num"
FindAllNumbers(text) ==
    LET nums == SelectSeq(text, IsNum)
    IN  [k \in 1..Len(nums) |-> nums[k].val]

\* [int(n) - 1 for n in numbers if 0 < int(n) <= len(responses)]
RECURSIVE AcceptedFrom(_, _)
AcceptedFrom(numbers, n) ==
    IF numbers = <<>> THEN <<>>
    ELSE LET k == Head(numbers)
             rest == AcceptedFrom(Tail(numbers), n)
         IN  IF 0 < k /\ k <= n THEN <<k - 1>> \o rest ELSE rest

\* re.search(r"PREFERRED:\s*(\d+)", result, re.IGNORECASE): int(group(1)),
\* or -1 when nothing matches
RECURSIVE PreferredNumberFrom(_, _)
PreferredNumberFrom(r, i) ==
    IF i > Len(r) THEN -1
    ELSE IF /\ r[i] = PREF
            /\ SkipWs(r, i + 1) <= Len(r)
            /\ IsNum(r[SkipWs(r, i + 1)])
         THEN r[SkipWs(r, i + 1)].val
         ELSE PreferredNumberFrom(r, i + 1)

Vote(accepted, preferred) == [accepted |-> accepted, preferred |-> preferred]
EmptyVote == Vote(<<>>, <<>>)

\* the parsing half of get_voter_votes: from the Backend Call's text to the
\* (accepted, preferred) pair
\* (a parser that, finding no ACCEPTED line, reads the numbers of the whole
\* reply)
ParseVotesWholeReply(r, n) ==
    LET group == AcceptedGroupFrom(r, 1)
        accepted == AcceptedFrom(FindAllNumbers(IF group = <<>> THEN r
                                                ELSE group), n)
        pref == PreferredNumberFrom(r, 1)
    IN  Vote(accepted,
             IF pref # -1 /\ (pref - 1) \in Elems(accepted)
             THEN <<pref - 1>> ELSE <<>>)
\* (a parser that keeps a preferred number the voter did not accept)
ParseVotesKeepAnyPreferred(r, n) ==
    LET accepted == AcceptedFrom(FindAllNumbers(AcceptedGroupFrom(r, 1)), n)
        pref == PreferredNumberFrom(r, 1)
    IN  IF r = <<>> THEN EmptyVote
        ELSE Vote(accepted,
                  IF pref # -1 /\ 0 <= pref - 1 /\ pref - 1 < n
                  THEN <<pref - 1>> ELSE <<>>)
\* (a parser without the range checks)
ParseVotesNoRangeCheck(r, n) ==
    LET numbers == FindAllNumbers(AcceptedGroupFrom(r, 1))
        accepted == [k \in 1..Len(numbers) |-> numbers[k] - 1]
        pref == PreferredNumberFrom(r, 1)
    IN  IF r = <<>> THEN EmptyVote
        ELSE Vote(accepted,
                  IF pref # -1 /\ (pref - 1) \in Elems(accepted)
                  THEN <<pref - 1>> ELSE <<>>)
ParseVotes(r, n) ==
    IF r = <<>> THEN EmptyVote
    ELSE LET accepted ==
                 AcceptedFrom(FindAllNumbers(AcceptedGroupFrom(r, 1)), n)
             pref == PreferredNumberFrom(r, 1)
             pref_num == pref - 1
         IN  Vote(accepted,
                  IF /\ pref # -1
                     /\ 0 <= pref_num /\ pref_num < n
                     /\ pref_num \in Elems(accepted)
                  THEN <<pref_num>> ELSE <<>>)

(***************************************************************************)
(* Winner selection: max(range(n), key=lambda i: (acc[i], pref[i])).       *)
(* Python's max scans left to right and replaces the best item only when a *)
(* later key is strictly greater; tuples compare lexicographically.        *)
(***************************************************************************)
KeyGreater(acc, pref, i, j) ==
    \/ At(acc, i) > At(acc, j)
    \/ At(acc, i) = At(acc, j) /\ At(pref, i) > At(pref, j)

KeyGreaterOrEqual(acc, pref, i, j) ==
    \/ At(acc, i) > At(acc, j)
    \/ At(acc, i) = At(acc, j) /\ At(pref, i) >= At(pref, j)

RECURSIVE MaxScan(_, _, _, _, _)
MaxScan(n, acc, pref, i, best) ==
    IF i >= n THEN best
    ELSE MaxScan(n, acc, pref, i + 1,
                 IF KeyGreater(acc, pref, i, best) THEN i ELSE best)

RECURSIVE MaxScanLast(_, _, _, _, _)
MaxScanLast(n, acc, pref, i, best) ==
    IF i >= n THEN best
    ELSE MaxScanLast(n, acc, pref, i + 1,
                     IF KeyGreaterOrEqual(acc, pref, i, best) THEN i ELSE best)

\* a max that keeps the last of equal keys
MaxByKeyLast(n, acc, pref) == MaxScanLast(n, acc, pref, 1, 0)
MaxByKey(n, acc, pref) == MaxScan(n, acc, pref, 1, 0)

\* voting.py pick_winner
pick_winner(n, acc, pref) ==
    IF n = 0 THEN -1 ELSE MaxByKey(n, acc, pref)

\* (a winner that, among the candidates with the maximal pair, is the one
\* whose owner's vote arrived first)
WinnerByArrival(n, acc, pref) ==
    IF n = 0 THEN -1
    ELSE LET best == {i \in 0..(n - 1) :
                         \A j \in 0..(n - 1) : ~KeyGreater(acc, pref, j, i)}
             at(i) == CHOOSE k \in 1..Len(arrived) : arrived[k] = i + 1
         IN  CHOOSE i \in best : \A j \in best : at(i) <= at(j)
\* aggregation.py aggregate_acceptance: the winner it reports for the tallies
\* run_acceptance_voting returned
aggregate_acceptance_winner(n, acc, pref) ==
    IF n = 0 THEN -1 ELSE MaxByKey(n, acc, pref)

(***************************************************************************)
(* Backend Call (llm.py fetch_completion / fetch_completion_simple).  A    *)
(* call returns content.strip() -- "" when the content is only white       *)
(* space -- or raises LLMError.  The state of a call is "idle", "pending", *)
(* "ok" (non-empty text), "blank" (the empty string) or the kind of the    *)
(* LLMError it raised.                                                     *)
(***************************************************************************)
ErrorKinds == {"connection",       \* httpx.RequestError: timeout, transport
               "http_status",      \* httpx.HTTPStatusError
               "invalid_format",   \* payload of the wrong shape
               "empty_response"}   \* no content in the payload

Settled == {"ok", "blank"} \cup ErrorKinds

\* the text member i generated (texts are told apart by their author)
Resp(i) == [src |-> "member", id |-> i]
\* "Sorry, I couldn't generate a response."
SorryText == [src |-> "apology", id |-> 0]
NoText == [src |-> "none", id |-> 0]

\* VotingDetails / what a function handed to its caller
NoOutcome ==
    [kind |-> "none", text |-> NoText, winner_index |-> -1,
     candidates |-> <<>>, aggregation_method |-> "none", error |-> "none"]

Returned(text, winner, candidates, agg_method) ==
    [kind |-> "returned", text |-> text, winner_index |-> winner,
     candidates |-> candidates, aggregation_method |-> agg_method,
     error |-> "none"]

Raised(error) ==
    [kind |-> "raised", text |-> NoText, winner_index |-> -1,
     candidates |-> <<>>, aggregation_method |-> "none", error |-> error]

\* Candidate(model=..., response=..., accepted=..., preferred=...)
Candidate(member, accepted, preferred) ==
    [model |-> member, response |-> Resp(member), accepted |-> accepted,
     preferred |-> preferred]

\* the text the synthesize model wrote
SynthText == [src |-> "synthesis", id |-> 0]

\* AggregationResult(winner_index, method, acceptance_counts,
\*                   preference_counts, synthesized_response)
AggregationResult(winner, agg_method, acc, pref, synthesized) ==
    [winner_index |-> winner, method |-> agg_method,
     acceptance_counts |-> acc, preference_counts |-> pref,
     synthesized_response |-> synthesized]
NoResult == AggregationResult(-1, "none", <<>>, <<>>, NoText)

\* seq[i] for a Python list: a negative index counts from the end
PyIndex(seq, i) == IF i < 0 THEN seq[Len(seq) + i + 1] ELSE seq[i + 1]

\* asyncio.gather(*tasks) without return_exceptions, as each child settles:
\* the first child to raise sets the future's exception; the future gets its
\* result when the last child has finished and none raised.
\* (o: how the child settled; othersDone: every other child has finished)
GatherAfter(g, o, othersDone) ==
    IF g # "waiting" THEN g
    ELSE IF o \in ErrorKinds THEN o
    ELSE IF othersDone THEN "resolved"
    ELSE "waiting"

\* (survivors collected in the order their calls settled)
FilterValidAsCompleted(calls, i) ==
    SelectSeq(completed, LAMBDA m : m >= i /\ calls[m] = "ok")
\* [(m, r) for m, r in responses_with_models if r]
RECURSIVE FilterValid(_, _)
FilterValid(calls, i) ==
    IF i > Len(calls) THEN <<>>
    ELSE (IF calls[i] = "ok" THEN <<i>> ELSE <<>>) \o FilterValid(calls, i + 1)

(***************************************************************************)
(* run_acceptance_voting: the tally loop over the voters' results.         *)
(***************************************************************************)
\* for idx in indices: if 0 <= idx < n: counts[idx] += 1
RECURSIVE CountVotes(_, _, _)
CountVotes(counts, indices, n) ==
    IF indices = <<>> THEN counts
    ELSE LET idx == Head(indices)
         IN  CountVotes(IF 0 <= idx /\ idx < n
                        THEN [counts EXCEPT ![idx + 1] = @ + 1]
                        ELSE counts,
                        Tail(indices), n)

\* the loop over zip(voting_models, voting_results), for one of the two lists
RECURSIVE TallyFrom(_, _, _, _, _)
TallyFrom(counts, votes, field, v, n) ==
    IF v > Len(votes) THEN counts
    ELSE TallyFrom(CountVotes(counts, votes[v][field], n), votes, field,
                   v + 1, n)

AcceptanceTally(votes, n) == TallyFrom(Zeros(n), votes, "accepted", 1, n)
PreferenceTally(votes, n) == TallyFrom(Zeros(n), votes, "preferred", 1, n)

(***************************************************************************)
(* Voter replies.  A voter's state is its reply's shape ("blank": empty    *)
(* text, "nomarker": neither marker, "marked") with the vote parsed from   *)
(* it, "pending", or the LLMError its Backend Call raised.                 *)
(***************************************************************************)
HasMarker(r) == \E k \in 1..Len(r) : r[k] \in {ACC, PREF}

ReplyShape(r) ==
    IF r = <<>> THEN "blank" ELSE IF HasMarker(r) THEN "marked" ELSE "nomarker"

VoterState(st, v) == [st |-> st, vote |-> v]
VoterPending == VoterState("pending", EmptyVote)

\* replies "ACCEPTED: a b <newline> PREFERRED: p" with every choice of digit
\* runs or other text for a, b and p; "PREFERRED: p" alone; a reply without
\* marker; the empty reply
TemplateReplies(n) ==
    LET slot == Numerals(n) \cup {W}
    IN  {<<>>, <<W>>, <<W, Num(1)>>}
        \cup {<<ACC, a, b, NL, PREF, p>> : a \in slot, b \in slot, p \in slot}
        \cup {<<PREF, p>> : p \in Numerals(n)}

\* the replies drawn for the voters of a voting_completion ensemble: empty,
\* no marker, a number accepted twice, all accepted, a preference that was
\* not accepted, only out-of-range numbers
EnsembleReplies(n) ==
    {<<>>, <<W>>,
     <<ACC, Num(1), Num(1), NL, PREF, Num(1)>>,
     <<ACC, Num(1), Num(n), NL, PREF, Num(n)>>,
     <<ACC, Num(n), NL, PREF, Num(1)>>,
     <<ACC, Num(0), Num(n + 1), NL, PREF, Num(n + 1)>>}

\* get_voter_votes applied to each reply a voter may give over n candidates
VotesOf(replies, n) ==
    {VoterState(ReplyShape(r), ParseVotes(r, n)) : r \in replies}

TemplateVotes == [n \in 0..MaxCand |-> VotesOf(TemplateReplies(n), n)]
EnsembleVotes == [n \in 0..MaxEnsemble |-> VotesOf(EnsembleReplies(n), n)]

(***************************************************************************)
(* trio_engine.py.  A trio node has the slots A, B and C; a slot holds a   *)
(* backend model or a nested trio.  Node 1 is the trio handed to           *)
(* trio_completion, node 2 the trio nested in one of its slots (if any);   *)
(* the members of node 2 are backend models.                               *)
(***************************************************************************)
Nodes == {1, 2}
Slots == {"A", "B", "C"}

IsNested(n, s) == n = 1 /\ trio_nested = s

\* the text the backend model in slot s of node n wrote
SlotIndex(s) == IF s = "A" THEN 1 ELSE IF s = "B" THEN 2 ELSE 3
LeafText(n, s) == [src |-> "trio", id |-> 3 * (n - 1) + SlotIndex(s)]

\* the (response, error) part of a member's result; st is "idle", "pending"
\* or "settled"
Member(st, response, error) ==
    [st |-> st, response |-> response, error |-> error]
MemberIdle == Member("idle", NoText, "None")
MemberPending == Member("pending", NoText, "None")

\* "if not response": None (NoText) and "" (BlankText) are both falsy
BlankText == [src |-> "blank", id |-> 0]
Falsy(response) == response \in {NoText, BlankText}

\* TrioError(message, status_code) and the TrioDetails of a return
TrioNoOutcome ==
    [kind |-> "none", text |-> NoText, response_a |-> NoText,
     response_b |-> NoText, status_code |-> 0, error_a |-> "None",
     error_b |-> "None"]

TrioReturned(text, response_a, response_b) ==
    [kind |-> "returned", text |-> text, response_a |-> response_a,
     response_b |-> response_b, status_code |-> 0, error_a |-> "None",
     error_b |-> "None"]

\* (a TrioError that names the two failure reasons the wrong way round)
TrioRaisedSwapped(error_a, error_b) ==
    [kind |-> "raised", text |-> NoText, response_a |-> NoText,
     response_b |-> NoText, status_code |-> 502, error_a |-> error_b,
     error_b |-> error_a]
\* raise TrioError(f"All models failed. A: {error_a}. B: {error_b}", 502)
TrioRaised(error_a, error_b) ==
    [kind |-> "raised", text |-> NoText, response_a |-> NoText,
     response_b |-> NoText, status_code |-> 502, error_a |-> error_a,
     error_b |-> error_b]

TrioIdle ==
    /\ trio_nested = "none"
    /\ tpc = [n \in Nodes |-> "idle"]
    /\ tcall = [n \in Nodes |-> [s \in Slots |-> MemberIdle]]
    /\ tout = [n \in Nodes |-> TrioNoOutcome]

(***************************************************************************)
(* chat_completions (main.py): the request, the registry of named          *)
(* ensembles (config.py) and the HTTP response.                            *)
(***************************************************************************)
\* aggregation.py AGGREGATION_METHODS
AGGREGATION_METHODS == {"acceptance_voting", "random", "judge", "synthesize"}

\* main.py MAX_ENSEMBLE_SIZE
MAX_ENSEMBLE_SIZE == 9

\* the positional arguments chat_completions passes to voting_completion
\* (client, settings, messages, ensemble, max_tokens, temperature,
\* aggregation_method, judge_model, synthesize_model)
VotingCompletionArgs == 9
\* the parameters voting_completion declares (client, settings, messages,
\* ensemble, max_tokens, temperature, aggregation_method, judge_model)
VotingCompletionParams == 8

\* an ensemble definition: request.model as an object, or the trio_params
\* of a registry entry
EnsembleModel(size, agg_method, judge, synthesize) ==
    [ensemble |-> size, aggregation_method |-> agg_method,
     judge_model |-> judge, synthesize_model |-> synthesize]

EnsembleModels ==
    {EnsembleModel(size, m, j, s) :
        size \in 0..(MAX_ENSEMBLE_SIZE + 1),
        m \in AGGREGATION_METHODS,
        j \in {"none", "judge"},
        s \in {"none", "synth"}}

NoEnsemble == EnsembleModel(0, "none", "none", "none")

\* request.model: a plain model name, "trio:<name>" or an ensemble object
\* (for an ensemble object, nested is the ensemble object standing as the
\* model of one of its members, NoEnsemble when every member names a model)
PlainModel ==
    [kind |-> "plain", name |-> "model", spec |-> NoEnsemble,
     nested |-> NoEnsemble]
TrioReference(name) ==
    [kind |-> "trio:", name |-> name, spec |-> NoEnsemble,
     nested |-> NoEnsemble]
InlineEnsemble(e) ==
    [kind |-> "ensemble", name |-> "none", spec |-> e, nested |-> NoEnsemble]
NestingEnsemble(e, inner) ==
    [kind |-> "ensemble", name |-> "none", spec |-> e, nested |-> inner]

\* the ensemble objects met as a member's model
NestedEnsembles ==
    {EnsembleModel(size, "random", "none", "none") :
        size \in {0, 2, MAX_ENSEMBLE_SIZE + 1}}
    \cup {EnsembleModel(2, "judge", j, "none") : j \in {"none", "judge"}}
    \cup {EnsembleModel(2, "synthesize", "none", c) :
            c \in {"none", "synth"}}

\* the ensemble objects with a nested ensemble among their members
OuterEnsembles ==
    {EnsembleModel(size, "random", "none", "none") :
        size \in {1, 2, MAX_ENSEMBLE_SIZE + 1}}
    \cup {EnsembleModel(2, "judge", c, "none") : c \in {"none", "judge"}}

\* the values of request.model
RequestModels ==
    {PlainModel}
    \cup {TrioReference(name) : name \in {"known", "unknown"}}
    \cup {InlineEnsemble(e) : e \in EnsembleModels}
    \cup {NestingEnsemble(e, inner) :
            e \in OuterEnsembles, inner \in NestedEnsembles}

ChatCompletionRequest(model, stream) == [model |-> model, stream |-> stream]
NoRequest == ChatCompletionRequest(PlainModel, FALSE)

\* the YAML file: no definitions, or one under the name "known"
ModelsFiles ==
    {[name \in {} |-> NoEnsemble]}
    \cup {[name \in {"known"} |-> e] : e \in EnsembleModels}

\* _trio_models: None until get_trio_models has loaded the file
NotLoaded == [loaded |-> FALSE, models |-> [name \in {} |-> NoEnsemble]]
Loaded(models) == [loaded |-> TRUE, models |-> models]

\* (a get_trio_models that reads the file at every call)
get_trio_models_uncached == Loaded(models_file)
\* get_trio_models(): the cache after the call
get_trio_models ==
    IF trio_models.loaded THEN trio_models ELSE Loaded(models_file)

ApiIdle ==
    /\ request = NoRequest
    /\ http_status = 0
    /\ trio_models = NotLoaded
    /\ models_file = [name \in {} |-> NoEnsemble]
    /\ served = 0
    /\ loads = 0
    /\ seen = <<>>

(***************************************************************************)
(* The arguments of a Backend Call: which model is asked, with which       *)
(* messages, max_tokens and temperature.  A temperature is held in tenths  *)
(* (0.7 is 7).  None is the string "none".                                 *)
(***************************************************************************)
\* voting.py DEFAULT_SYSTEM_PROMPT
DEFAULT_SYSTEM_PROMPT == "You are a helpful assistant."

\* llm.py: the defaults of fetch_completion_simple's max_tokens, temperature
DEFAULT_MAX_TOKENS == 500
DEFAULT_TEMPERATURE == 7

\* trio_engine.py TRIO_SYSTEM_PROMPT_AB and TRIO_SYSTEM_PROMPT_C
TRIO_SYSTEM_PROMPT_AB == "You are an assistant within an AI system (A, B)"
TRIO_SYSTEM_PROMPT_C == "You are an assistant within an AI system (C)"

\* models.py ChatMessage; tool is the id of the tool call the message makes
\* or answers
ToolMessage(role, content, tool) ==
    [role |-> role, content |-> content, tool |-> tool]
ChatMessage(role, content) == ToolMessage(role, content, "none")

\* Python truthiness of an optional string
Truthy(text) == text \notin {"none", ""}

\* the messages a conversation is made of
Turns ==
    {ChatMessage("system", "ambient"), ChatMessage("system", ""),
     ChatMessage("user", "question"), ChatMessage("assistant", "answer")}

Conversations == SeqsUpTo(Turns, MaxMessages)

\* EnsembleMember(model, system_prompt) and TrioMember(model, messages); a
\* TrioMember's messages None and [] both extend the list by nothing
CalledMember(model, system_prompt, own_messages) ==
    [model |-> model, system_prompt |-> system_prompt,
     messages |-> own_messages]

EnsembleMembers ==
    {CalledMember("member", p, <<>>) : p \in {"none", "", "override"}}

TrioMembers ==
    {CalledMember("member", "none", own) :
        own \in {<<>>, <<ChatMessage("system", "Be concise")>>}}

\* the arguments fetch_completion is called with
BackendCall(model, msgs, tokens, temp) ==
    [model |-> model, messages |-> msgs, max_tokens |-> tokens,
     temperature |-> temp]

NoCall == BackendCall("none", <<>>, 0, 0)

\* llm.py fetch_completion_simple: a system and a user message
fetch_completion_simple(model, system_prompt, user_message, tokens, temp) ==
    BackendCall(model,
                <<ChatMessage("system", system_prompt),
                  ChatMessage("user", user_message)>>,
                tokens, temp)

\* generate_responses / voting_completion: default_system
DefaultSystem(msgs) ==
    IF msgs # <<>> /\ msgs[1].role = "system" THEN msgs[1].content
    ELSE DEFAULT_SYSTEM_PROMPT

\* member.system_prompt if member.system_prompt else default_system
SystemPrompt(m, msgs) ==
    IF Truthy(m.system_prompt) THEN m.system_prompt ELSE DefaultSystem(msgs)

\* messages[-1].content if messages else ""
UserMessage(msgs) == IF msgs # <<>> THEN msgs[Len(msgs)].content ELSE ""

\* voting_completion: the question handed to aggregate(), the content of the
\* last message with role "user" ("" without one)
Question(msgs) ==
    LET at == {k \in 1..Len(msgs) : msgs[k].role = "user"}
    IN  IF at = {} THEN ""
        ELSE msgs[CHOOSE k \in at : \A j \in at : j <= k].content

\* trio_engine.py _extract_host_system_prompt: the content of the last system
\* message ("" without one) and the messages that are not system messages
HostSystemPrompt(msgs) ==
    LET at == {k \in 1..Len(msgs) : msgs[k].role = "system"}
    IN  IF at = {} THEN ""
        ELSE msgs[CHOOSE k \in at : \A j \in at : j <= k].content

IsChatHistory(m) == m.role # "system"
ChatHistory(msgs) == SelectSeq(msgs, IsChatHistory)

\* the assistant "calls" get_host_system_prompt and the tool answers
HostPromptExchange(msgs) ==
    <<ToolMessage("assistant", "none", "hsp"),
      ToolMessage("tool",
                  IF Truthy(HostSystemPrompt(msgs)) THEN HostSystemPrompt(msgs)
                  ELSE "(No host system prompt provided)",
                  "hsp")>>

\* _generate_member_response: the message list built for member A or B
MemberMessages(m, msgs) ==
    <<ChatMessage("system", TRIO_SYSTEM_PROMPT_AB)>>
    \o m.messages
    \o HostPromptExchange(msgs)
    \o ChatHistory(msgs)

\* _synthesize: the message list built for member C
SynthesisMessages(m, msgs) ==
    <<ChatMessage("system", TRIO_SYSTEM_PROMPT_C)>>
    \o m.messages
    \o HostPromptExchange(msgs)
    \o ChatHistory(msgs)
    \o <<ToolMessage("assistant", "none", "drafts"),
         ToolMessage("tool", "Draft 1: response_a Draft 2: response_b",
                     "drafts")>>

CallIdle ==
    /\ vote_calls = <<>>
    /\ arrived = <<>>
    /\ messages = <<>>
    /\ callee = CalledMember("none", "none", <<>>)
    /\ max_tokens = DEFAULT_MAX_TOKENS
    /\ temperature = DEFAULT_TEMPERATURE
    /\ call = NoCall
    /\ question = ""


(***************************************************************************)
(* Specification SpecParse: get_voter_votes on one voter reply.            *)
(***************************************************************************)
InitParse ==
    /\ pc = "awaiting_vote"
    /\ n_cand \in 1..MaxCand
    /\ result = <<>>
    /\ vote = EmptyVote
    /\ acceptance_counts = <<>>
    /\ preference_counts = <<>>
    /\ winner_index = -1
    /\ entry = "get_voter_votes"
    /\ ensemble_size = 0
    /\ method = "none"
    /\ judge_model = "none"
    /\ synthesize_model = "none"
    /\ gen = <<>>
    /\ gather = "none"
    /\ completed = <<>>
    /\ valid_responses = <<>>
    /\ voter = <<>>
    /\ judge_call = "idle"
    /\ synth_call = "idle"
    /\ agg_result = NoResult
    /\ ApiIdle
    /\ CallIdle
    /\ agg_calls = 0
    /\ outcome = NoOutcome
    /\ TrioIdle

\* the voter's Backend Call returns text r and get_voter_votes parses it
GetVoterVotesReturns ==
    /\ pc = "awaiting_vote"
    /\ \E r \in Replies(n_cand, MaxReplyLen) :
          /\ result' = r
          /\ vote' = ParseVotes(r, n_cand)
    /\ pc' = "vote_returned"
    /\ UNCHANGED <<apiVars, voteVars, serveVars, callVars, trioVars, n_cand,
                   tallyVars, requestVars, nodeVars>>

NextParse == GetVoterVotesReturns

SpecParse == InitParse /\ [][NextParse]_vars

(***************************************************************************)
(* Specification SpecPick: winner selection over arbitrary tallies.        *)
(***************************************************************************)
InitPick ==
    /\ pc = "tallied"
    /\ n_cand \in 0..MaxTally
    /\ result = <<>>
    /\ vote = EmptyVote
    /\ acceptance_counts \in [1..n_cand -> 0..MaxCount]
    /\ preference_counts \in [1..n_cand -> 0..MaxCount]
    /\ winner_index = -1
    /\ entry = "pick_winner"
    /\ ensemble_size = 0
    /\ method = "none"
    /\ judge_model = "none"
    /\ synthesize_model = "none"
    /\ gen = <<>>
    /\ gather = "none"
    /\ completed = <<>>
    /\ valid_responses = <<>>
    /\ voter = <<>>
    /\ judge_call = "idle"
    /\ synth_call = "idle"
    /\ agg_result = NoResult
    /\ ApiIdle
    /\ CallIdle
    /\ agg_calls = 0
    /\ outcome = NoOutcome
    /\ TrioIdle

PickWinner ==
    /\ pc = "tallied"
    /\ winner_index' = pick_winner(n_cand, acceptance_counts, preference_counts)
    /\ pc' = "picked"
    /\ UNCHANGED <<apiVars, voteVars, serveVars, callVars, trioVars, n_cand,
                   parseVars, acceptance_counts, preference_counts,
                   requestVars, nodeVars>>

AggregateAcceptancePick ==
    /\ pc = "tallied"
    /\ winner_index' = aggregate_acceptance_winner(n_cand, acceptance_counts,
                                                   preference_counts)
    /\ pc' = "aggregated"
    /\ UNCHANGED <<apiVars, voteVars, serveVars, callVars, trioVars, n_cand,
                   parseVars, acceptance_counts, preference_counts,
                   requestVars, nodeVars>>

NextPick == PickWinner \/ AggregateAcceptancePick

SpecPick == InitPick /\ [][NextPick]_vars

(***************************************************************************)
(* Specification SpecCall: the arguments with which each call site issues  *)
(* its Backend Call, for every conversation, member and request setting.   *)
(***************************************************************************)
\* the functions that issue a Backend Call
GenerationSites == {"generate_responses", "voting_completion"}
AggregationSites == {"get_voter_votes", "aggregate_judge",
                     "aggregate_synthesize"}
TrioSites == {"_generate_member_response", "_synthesize"}
CallSites == GenerationSites \cup AggregationSites \cup TrioSites

\* the request's max_tokens and temperature: the defaults or other values
RequestMaxTokens == {DEFAULT_MAX_TOKENS, 100}
RequestTemperatures == {DEFAULT_TEMPERATURE, 2}

InitCall ==
    /\ pc = "called"
    /\ entry \in CallSites
    /\ messages \in Conversations
    /\ callee \in IF entry \in GenerationSites THEN EnsembleMembers
                  ELSE IF entry \in TrioSites THEN TrioMembers
                  ELSE {CalledMember("member", "none", <<>>)}
    /\ max_tokens \in RequestMaxTokens
    /\ temperature \in RequestTemperatures
    /\ call = NoCall
    /\ question = ""
    /\ vote_calls = <<>>
    /\ arrived = <<>>
    /\ n_cand = 0
    /\ result = <<>>
    /\ vote = EmptyVote
    /\ acceptance_counts = <<>>
    /\ preference_counts = <<>>
    /\ winner_index = -1
    /\ ensemble_size = IF entry = "voting_completion" THEN 1 ELSE 0
    /\ method = "none"
    /\ judge_model = "none"
    /\ synthesize_model = "none"
    /\ gen = <<>>
    /\ gather = "none"
    /\ completed = <<>>
    /\ valid_responses = <<>>
    /\ voter = <<>>
    /\ judge_call = "idle"
    /\ synth_call = "idle"
    /\ agg_result = NoResult
    /\ ApiIdle
    /\ agg_calls = 0
    /\ outcome = NoOutcome
    /\ TrioIdle

\* a call site issues its Backend Call with the arguments c
Issue(site, c) ==
    /\ pc = "called"
    /\ entry = site
    /\ call' = c
    /\ question' = IF site \in AggregationSites THEN Question(messages)
                   ELSE question
    /\ pc' = "sent"
    /\ UNCHANGED <<apiVars, voteVars, serveVars, trioVars, n_cand, parseVars,
                   tallyVars, requestVars, nodeVars, messages, callee,
                   max_tokens, temperature>>

\* generate_responses: the task created for a member
MemberBackendCall ==
    Issue("generate_responses",
          fetch_completion_simple(callee.model,
                                  SystemPrompt(callee, messages),
                                  UserMessage(messages),
                                  max_tokens, temperature))

\* voting_completion, len(ensemble) == 1: the call of the only member
SingleBackendCall ==
    Issue("voting_completion",
          fetch_completion_simple(callee.model,
                                  SystemPrompt(callee, messages),
                                  UserMessage(messages),
                                  max_tokens, temperature))

\* get_voter_votes: max_tokens and temperature are not passed, so the
\* defaults of fetch_completion_simple apply
VoterBackendCall ==
    Issue("get_voter_votes",
          fetch_completion_simple(
              callee.model,
              "You are evaluating responses. Be thoughtful but decisive.",
              "voting_prompt", DEFAULT_MAX_TOKENS, DEFAULT_TEMPERATURE))

\* aggregate_judge: likewise called without max_tokens and temperature
JudgeBackendCall ==
    Issue("aggregate_judge",
          fetch_completion_simple(
              "judge_model",
              "You are evaluating responses. Pick the single best response.",
              "judge_prompt", DEFAULT_MAX_TOKENS, DEFAULT_TEMPERATURE))

\* aggregate_synthesize: likewise
SynthesizeBackendCall ==
    Issue("aggregate_synthesize",
          fetch_completion_simple(
              "synthesize_model",
              "You are synthesizing multiple responses into one answer.",
              "synthesize_prompt", DEFAULT_MAX_TOKENS, DEFAULT_TEMPERATURE))

\* _generate_member_response, backend model: fetch_completion with the
\* message list built for the member
TrioMemberBackendCall ==
    Issue("_generate_member_response",
          BackendCall(callee.model, MemberMessages(callee, messages),
                      max_tokens, temperature))

\* _synthesize, backend model
TrioSynthesisBackendCall ==
    Issue("_synthesize",
          BackendCall(callee.model, SynthesisMessages(callee, messages),
                      max_tokens, temperature))

NextCall ==
    \/ MemberBackendCall
    \/ SingleBackendCall
    \/ VoterBackendCall
    \/ JudgeBackendCall
    \/ SynthesizeBackendCall
    \/ TrioMemberBackendCall
    \/ TrioSynthesisBackendCall

SpecCall == InitCall /\ [][NextCall]_vars

(***************************************************************************)
(* Specification Spec: voting_completion (generation fan-out, failure      *)
(* policy, aggregation) and run_acceptance_voting called on its own.       *)
(***************************************************************************)
\* the judge's replies: a bare number, a number inside a sentence, no number
JudgeReplies(n) ==
    {<<Num(k)>> : k \in 0..(n + 1)}
    \cup {<<W, Num(k), W, Num(j)>> : k \in 0..(n + 1), j \in 1..2}
    \cup {<<W>>}

\* re.search(r"\d+", result): int(match.group()), or -1 when nothing matches
FirstNumber(r) ==
    LET numbers == FindAllNumbers(r)
    IN  IF numbers = <<>> THEN -1 ELSE Head(numbers)

\* (a judge parser that takes the first integer within 1..n, wherever it
\* stands in the reply)
JudgeWinnerAnyInRange(r, n) ==
    LET numbers == FindAllNumbers(r)
        fits == {p \in 1..Len(numbers) : 1 <= numbers[p] /\ numbers[p] <= n}
    IN  IF fits = {} THEN 0
        ELSE numbers[CHOOSE p \in fits : \A q \in fits : p <= q] - 1
\* (a judge parser that reads the last integer of the reply)
JudgeWinnerLast(r, n) ==
    LET numbers == FindAllNumbers(r)
        winner_num == IF numbers = <<>> THEN -1
                      ELSE numbers[Len(numbers)] - 1
    IN  IF 0 <= winner_num /\ winner_num < n THEN winner_num ELSE 0
\* aggregate_judge: the winner for the judge's non-empty reply
JudgeWinner(r, n) ==
    LET winner_num == FirstNumber(r) - 1
    IN  IF FirstNumber(r) # -1 /\ 0 <= winner_num /\ winner_num < n
        THEN winner_num ELSE 0

Init ==
    /\ pc = "called"
    /\ entry \in {"voting_completion", "run_acceptance_voting", "aggregate",
                  "trio_completion", "chat_completions"}
    /\ ensemble_size \in IF entry = "voting_completion"
                         THEN 0..MaxEnsemble ELSE {0}
    /\ method \in IF entry \in {"voting_completion", "aggregate"}
                  THEN AGGREGATION_METHODS ELSE {"acceptance_voting"}
    /\ judge_model \in IF method = "judge" THEN {"none", "judge"} ELSE {"none"}
    /\ synthesize_model \in IF entry = "aggregate" /\ method = "synthesize"
                            THEN {"none", "synth"} ELSE {"none"}
    /\ n_cand \in IF entry \in {"run_acceptance_voting", "aggregate"}
                  THEN 0..MaxCand ELSE {0}
    /\ valid_responses = [k \in 1..n_cand |-> k]
    /\ gen = [k \in 1..ensemble_size |-> "idle"]
    /\ gather = "none"
    /\ completed = <<>>
    /\ voter = <<>>
    /\ judge_call = "idle"
    /\ synth_call = "idle"
    /\ agg_result = NoResult
    /\ http_status = 0
    /\ trio_models = NotLoaded
    /\ served = 0
    /\ loads = 0
    /\ seen = <<>>
    /\ \E stream \in BOOLEAN, model \in RequestModels :
          request = IF entry = "chat_completions"
                    THEN ChatCompletionRequest(model, stream) ELSE NoRequest
    /\ models_file \in IF entry = "chat_completions"
                           /\ request.model.kind = "trio:"
                       THEN ModelsFiles ELSE {[name \in {} |-> NoEnsemble]}
    /\ CallIdle
    /\ agg_calls = 0
    /\ outcome = NoOutcome
    /\ trio_nested \in IF entry = "trio_completion"
                       THEN {"none", "A", "B", "C"} ELSE {"none"}
    /\ tpc = [n \in Nodes |-> "idle"]
    /\ tcall = [n \in Nodes |-> [s \in Slots |-> MemberIdle]]
    /\ tout = [n \in Nodes |-> TrioNoOutcome]
    /\ result = <<>>
    /\ vote = EmptyVote
    /\ acceptance_counts = <<>>
    /\ preference_counts = <<>>
    /\ winner_index = -1

\* voting_completion, len(ensemble) == 1: the member is called directly
SingleModelCall ==
    /\ pc = "called"
    /\ entry = "voting_completion"
    /\ ensemble_size = 1
    /\ gen' = [gen EXCEPT ![1] = "pending"]
    /\ pc' = "single_await"
    /\ UNCHANGED <<completed, synth_call, agg_result, apiVars, voteVars,
                   serveVars, callVars, trioVars, n_cand, parseVars,
                   tallyVars, requestVars, gather, valid_responses, voter,
                   judge_call, agg_calls, outcome>>

\* the awaited call raises: the LLMError leaves voting_completion
SingleModelRaises ==
    /\ pc = "single_await"
    /\ \E e \in ErrorKinds :
          /\ gen' = [gen EXCEPT ![1] = e]
          /\ outcome' = Raised(e)
    /\ completed' = Append(completed, 1)
    /\ pc' = "raised"
    /\ UNCHANGED <<synth_call, agg_result, apiVars, voteVars, serveVars,
                   callVars, trioVars, n_cand, parseVars, tallyVars,
                   requestVars, gather, valid_responses, voter, judge_call,
                   agg_calls>>

\* (a pass-through that reports the requested aggregation method)
SingleModelReturnsRequestedMethod ==
    /\ pc = "single_await"
    /\ \E o \in {"ok", "blank"} :
          /\ gen' = [gen EXCEPT ![1] = o]
          /\ outcome' = IF o = "blank"
                        THEN Returned(SorryText, -1, <<>>, "none")
                        ELSE Returned(Resp(1), 0, <<Candidate(1, 0, 0)>>,
                                      method)
    /\ completed' = Append(completed, 1)
    /\ pc' = "done"
    /\ UNCHANGED <<synth_call, agg_result, apiVars, voteVars, serveVars,
                   callVars, trioVars, n_cand, parseVars, tallyVars,
                   requestVars, gather, valid_responses, voter, judge_call,
                   agg_calls>>

\* the awaited call returns text, empty or not
SingleModelReturns ==
    /\ pc = "single_await"
    /\ \E o \in {"ok", "blank"} :
          /\ gen' = [gen EXCEPT ![1] = o]
          /\ outcome' = IF o = "blank"
                        THEN Returned(SorryText, -1, <<>>, "none")
                        ELSE Returned(Resp(1), 0, <<Candidate(1, 0, 0)>>,
                                      "none")
    /\ completed' = Append(completed, 1)
    /\ pc' = "done"
    /\ UNCHANGED <<synth_call, agg_result, apiVars, voteVars, serveVars,
                   callVars, trioVars, n_cand, parseVars, tallyVars,
                   requestVars, gather, valid_responses, voter, judge_call,
                   agg_calls>>

\* generate_responses: one task per member, awaited with asyncio.gather
GenerateResponses ==
    /\ pc = "called"
    /\ entry = "voting_completion"
    /\ ensemble_size # 1
    /\ gen' = [k \in 1..ensemble_size |-> "pending"]
    /\ gather' = IF ensemble_size = 0 THEN "resolved" ELSE "waiting"
    /\ pc' = "generating"
    /\ UNCHANGED <<completed, synth_call, agg_result, apiVars, voteVars,
                   serveVars, callVars, trioVars, n_cand, parseVars,
                   tallyVars, requestVars, valid_responses, voter, judge_call,
                   agg_calls, outcome>>

\* (a generation call that is sent again after it failed)
MemberSettlesRetrying(i) ==
    /\ pc # "single_await"
    /\ gen[i] \in {"pending"} \cup ErrorKinds
    /\ completed' = Append(completed, i)
    /\ \E o \in Settled :
          /\ gen' = [gen EXCEPT ![i] = o]
          /\ gather' = IF pc = "generating"
                       THEN GatherAfter(gather, o,
                                \A k \in 1..ensemble_size :
                                    k # i => gen[k] \in {"ok", "blank"})
                       ELSE gather
    /\ UNCHANGED <<synth_call, agg_result, apiVars, voteVars, serveVars,
                   callVars, trioVars, pc, n_cand, parseVars, tallyVars,
                   requestVars, valid_responses, voter, judge_call, agg_calls,
                   outcome>>

\* member i's generation call settles; the gather future takes note of it
MemberSettles(i) ==
    /\ pc # "single_await"
    /\ gen[i] = "pending"
    /\ completed' = Append(completed, i)
    /\ \E o \in Settled :
          /\ gen' = [gen EXCEPT ![i] = o]
          /\ gather' = IF pc = "generating"
                       THEN GatherAfter(gather, o,
                                \A k \in 1..ensemble_size :
                                    k # i => gen[k] \in {"ok", "blank"})
                       ELSE gather
    /\ UNCHANGED <<synth_call, agg_result, apiVars, voteVars, serveVars,
                   callVars, trioVars, pc, n_cand, parseVars, tallyVars,
                   requestVars, valid_responses, voter, judge_call, agg_calls,
                   outcome>>

\* await asyncio.gather(*tasks) raises the first member's LLMError, which
\* neither generate_responses nor voting_completion catches
GenerationRaises ==
    /\ pc = "generating"
    /\ gather \in ErrorKinds
    /\ outcome' = Raised(gather)
    /\ pc' = "raised"
    /\ UNCHANGED <<completed, synth_call, agg_result, apiVars, voteVars,
                   serveVars, callVars, trioVars, n_cand, parseVars,
                   tallyVars, requestVars, gen, gather, valid_responses,
                   voter, judge_call, agg_calls>>

\* no member produced text
NoValidResponse ==
    /\ pc = "generating"
    /\ gather = "resolved"
    /\ FilterValid(gen, 1) = <<>>
    /\ outcome' = Returned(SorryText, -1, <<>>, "none")
    /\ pc' = "done"
    /\ UNCHANGED <<completed, synth_call, agg_result, apiVars, voteVars,
                   serveVars, callVars, trioVars, n_cand, parseVars,
                   tallyVars, requestVars, gen, gather, valid_responses,
                   voter, judge_call, agg_calls>>

\* exactly one member produced text: it is returned without aggregation
OneValidResponse ==
    /\ pc = "generating"
    /\ gather = "resolved"
    /\ Len(FilterValid(gen, 1)) = 1
    /\ LET valid == FilterValid(gen, 1)
       IN  /\ valid_responses' = valid
           /\ outcome' = Returned(Resp(valid[1]), 0,
                                  <<Candidate(valid[1], 0, 0)>>, "none")
    /\ pc' = "done"
    /\ UNCHANGED <<completed, synth_call, agg_result, apiVars, voteVars,
                   serveVars, callVars, trioVars, n_cand, parseVars,
                   tallyVars, requestVars, gen, gather, voter, judge_call,
                   agg_calls>>

\* (an aggregation that starts as soon as two members have answered)
AggregateCalledEarly ==
    \/ /\ entry = "voting_completion"
       /\ pc = "generating"
       /\ Len(FilterValid(gen, 1)) >= 2
    \/ /\ entry = "aggregate"
       /\ pc = "called"

\* aggregate() is called: by voting_completion once two or more responses
\* are valid, or directly by the caller
AggregateCalled ==
    \/ /\ entry = "voting_completion"
       /\ pc = "generating"
       /\ gather = "resolved"
       /\ Len(FilterValid(gen, 1)) >= 2
    \/ /\ entry = "aggregate"
       /\ pc = "called"

\* the responses argument of aggregate()
Responses ==
    IF entry = "voting_completion" THEN FilterValid(gen, 1)
    ELSE valid_responses

\* the synthesize_model argument of aggregate(): voting_completion passes
\* none
PassedSynthesizeModel ==
    IF entry = "voting_completion" THEN "none" ELSE synthesize_model

\* aggregate() finds the companion model of the method missing
MissingModel ==
    \/ method = "judge" /\ judge_model = "none"
    \/ method = "synthesize" /\ PassedSynthesizeModel = "none"

\* the candidates of an outcome whose method tallies nothing
ZeroCandidates(valid) == [k \in 1..Len(valid) |-> Candidate(valid[k], 0, 0)]

\* the candidates of an outcome, with the counts of the aggregation result
CountedCandidates(valid, acc, pref) ==
    [k \in 1..Len(valid) |->
        Candidate(valid[k],
                  IF acc # <<>> THEN acc[k] ELSE 0,
                  IF pref # <<>> THEN pref[k] ELSE 0)]

\* (an outcome whose text is always the first candidate's response)
VotingOutcomeFirst(valid, res) ==
    Returned(Resp(valid[1]), res.winner_index,
             CountedCandidates(valid, res.acceptance_counts,
                               res.preference_counts),
             res.method)

\* voting_completion builds its return value from the aggregation result
VotingOutcome(valid, res) ==
    Returned(Resp(PyIndex(valid, res.winner_index)), res.winner_index,
             CountedCandidates(valid, res.acceptance_counts,
                               res.preference_counts),
             res.method)

\* what the invoked function returns once the aggregation has its result
NodeOutcome(valid, res) ==
    IF entry = "voting_completion" THEN VotingOutcome(valid, res)
    ELSE Returned(NoText, -1, <<>>, "none")

\* aggregate(): judge without judge_model, or synthesize without
\* synthesize_model, raises ValueError
AggregateRejects ==
    /\ AggregateCalled
    /\ MissingModel
    /\ valid_responses' = Responses
    /\ outcome' = Raised("ValueError")
    /\ pc' = "raised"
    /\ UNCHANGED <<completed, synth_call, agg_result, apiVars, voteVars,
                   serveVars, callVars, trioVars, n_cand, parseVars,
                   tallyVars, requestVars, gen, gather, voter, judge_call,
                   agg_calls>>

\* "if not responses": every method returns winner_index -1 and no counts
AggregateEmpty ==
    /\ AggregateCalled
    /\ ~MissingModel
    /\ Responses = <<>>
    /\ agg_result' = AggregationResult(-1, method, <<>>, <<>>, NoText)
    /\ winner_index' = -1
    /\ outcome' = NodeOutcome(Responses, agg_result')
    /\ pc' = "done"
    /\ UNCHANGED <<completed, synth_call, apiVars, voteVars, serveVars,
                   callVars, trioVars, n_cand, parseVars, acceptance_counts,
                   preference_counts, requestVars, gen, gather,
                   valid_responses, voter, judge_call, agg_calls>>

\* (a draw with random.randint(0, len(responses)), whose upper end is
\* inclusive)
AggregateRandomInclusive ==
    /\ AggregateCalled
    /\ method = "random"
    /\ Responses # <<>>
    /\ LET valid == Responses
           n == Len(valid)
       IN  /\ valid_responses' = valid
           /\ \E w \in 0..n :
                 /\ winner_index' = w
                 /\ agg_result' = AggregationResult(w, "random", Zeros(n),
                                                    Zeros(n), NoText)
                 /\ outcome' = NodeOutcome(valid, agg_result')
    /\ pc' = "done"
    /\ UNCHANGED <<completed, synth_call, apiVars, voteVars, serveVars,
                   callVars, trioVars, n_cand, parseVars, acceptance_counts,
                   preference_counts, requestVars, gen, gather, voter,
                   judge_call, agg_calls>>

\* (a random choice that leaves the two count arrays empty)
AggregateRandomEmptyCounts ==
    /\ AggregateCalled
    /\ method = "random"
    /\ Responses # <<>>
    /\ LET valid == Responses
           n == Len(valid)
       IN  /\ valid_responses' = valid
           /\ \E w \in 0..(n - 1) :
                 /\ winner_index' = w
                 /\ agg_result' = AggregationResult(w, "random", <<>>, <<>>,
                                                    NoText)
                 /\ outcome' = NodeOutcome(valid, agg_result')
    /\ pc' = "done"
    /\ UNCHANGED <<completed, synth_call, apiVars, voteVars, serveVars,
                   callVars, trioVars, n_cand, parseVars, acceptance_counts,
                   preference_counts, requestVars, gen, gather, voter,
                   judge_call, agg_calls>>

\* aggregate_random: random.randint(0, len(responses) - 1)
AggregateRandom ==
    /\ AggregateCalled
    /\ method = "random"
    /\ Responses # <<>>
    /\ LET valid == Responses
           n == Len(valid)
       IN  /\ valid_responses' = valid
           /\ \E w \in 0..(n - 1) :
                 /\ winner_index' = w
                 /\ agg_result' = AggregationResult(w, "random", Zeros(n),
                                                    Zeros(n), NoText)
                 /\ outcome' = NodeOutcome(valid, agg_result')
    /\ pc' = "done"
    /\ UNCHANGED <<completed, synth_call, apiVars, voteVars, serveVars,
                   callVars, trioVars, n_cand, parseVars, acceptance_counts,
                   preference_counts, requestVars, gen, gather, voter,
                   judge_call, agg_calls>>

\* aggregate_judge: the judge model is asked
AggregateJudge ==
    /\ AggregateCalled
    /\ method = "judge" /\ judge_model # "none"
    /\ Responses # <<>>
    /\ valid_responses' = Responses
    /\ n_cand' = Len(Responses)
    /\ judge_call' = "pending"
    /\ agg_calls' = agg_calls + 1
    /\ pc' = "judging"
    /\ UNCHANGED <<completed, synth_call, agg_result, apiVars, voteVars,
                   serveVars, callVars, trioVars, parseVars, tallyVars,
                   requestVars, gen, gather, voter, outcome>>

\* the judge's call raises: the LLMError leaves aggregate_judge, aggregate
\* and voting_completion
JudgeRaises ==
    /\ pc = "judging"
    /\ \E e \in ErrorKinds :
          /\ judge_call' = e
          /\ outcome' = Raised(e)
    /\ pc' = "raised"
    /\ UNCHANGED <<completed, synth_call, agg_result, apiVars, voteVars,
                   serveVars, callVars, trioVars, n_cand, parseVars,
                   tallyVars, requestVars, gen, gather, valid_responses,
                   voter, agg_calls>>

\* the judge's call returns; its first integer names the winner
JudgeReturns ==
    /\ pc = "judging"
    /\ \E r \in JudgeReplies(n_cand) \cup {<<>>} :
          LET w == IF r = <<>> THEN 0 ELSE JudgeWinner(r, n_cand)
          IN  /\ judge_call' = IF r = <<>> THEN "blank" ELSE "ok"
              /\ result' = r
              /\ winner_index' = w
              /\ agg_result' = AggregationResult(w, "judge", Zeros(n_cand),
                                                 Zeros(n_cand), NoText)
              /\ outcome' = NodeOutcome(valid_responses, agg_result')
    /\ pc' = "done"
    /\ UNCHANGED <<completed, synth_call, apiVars, voteVars, serveVars,
                   callVars, trioVars, n_cand, vote, acceptance_counts,
                   preference_counts, requestVars, gen, gather,
                   valid_responses, voter, agg_calls>>

\* aggregate_synthesize: the synthesize model is asked
AggregateSynthesize ==
    /\ AggregateCalled
    /\ method = "synthesize" /\ PassedSynthesizeModel # "none"
    /\ Responses # <<>>
    /\ valid_responses' = Responses
    /\ n_cand' = Len(Responses)
    /\ synth_call' = "pending"
    /\ agg_calls' = agg_calls + 1
    /\ pc' = "synthesizing"
    /\ UNCHANGED <<completed, agg_result, apiVars, voteVars, serveVars,
                   callVars, trioVars, parseVars, tallyVars, requestVars, gen,
                   gather, voter, judge_call, outcome>>

\* the synthesize model's call raises: the LLMError leaves
\* aggregate_synthesize and aggregate
SynthesizeRaises ==
    /\ pc = "synthesizing"
    /\ \E e \in ErrorKinds :
          /\ synth_call' = e
          /\ outcome' = Raised(e)
    /\ pc' = "raised"
    /\ UNCHANGED <<completed, agg_result, apiVars, voteVars, serveVars,
                   callVars, trioVars, n_cand, parseVars, tallyVars,
                   requestVars, gen, gather, valid_responses, voter,
                   judge_call, agg_calls>>

\* the synthesize model's call returns: its text, or the first response when
\* the text is empty
SynthesizeReturns ==
    /\ pc = "synthesizing"
    /\ \E o \in {"ok", "blank"} :
          /\ synth_call' = o
          /\ agg_result' =
                IF o = "blank"
                THEN AggregationResult(0, "synthesize", Zeros(n_cand),
                                       Zeros(n_cand), NoText)
                ELSE AggregationResult(-1, "synthesize", Zeros(n_cand),
                                       Zeros(n_cand), SynthText)
          /\ winner_index' = agg_result'.winner_index
          /\ outcome' = NodeOutcome(valid_responses, agg_result')
    /\ pc' = "done"
    /\ UNCHANGED <<completed, apiVars, voteVars, serveVars, callVars,
                   trioVars, n_cand, parseVars, acceptance_counts,
                   preference_counts, requestVars, gen, gather,
                   valid_responses, voter, judge_call, agg_calls>>

\* the task get_voter_votes(client, url, model, question, responses): the
\* model asked and the responses listed in its voting prompt
VoteCall(model, shown) == [model |-> model, responses |-> shown]

\* (a voting round in which no voter is shown its own model's response)
VotingTasksOthersOnly(valid) ==
    [k \in 1..Len(valid) |->
        VoteCall(valid[k], SelectSeq(valid, LAMBDA m : m # valid[k]))]

\* run_acceptance_voting: one task per (model, response) pair, each given
\* the responses of all pairs
VotingTasks(valid) == [k \in 1..Len(valid) |-> VoteCall(valid[k], valid)]

\* aggregate_acceptance -> run_acceptance_voting: one voting task per
\* candidate, awaited with asyncio.gather
AggregateAcceptance ==
    /\ AggregateCalled
    /\ method = "acceptance_voting"
    /\ Responses # <<>>
    /\ LET valid == Responses
       IN  /\ valid_responses' = valid
           /\ n_cand' = Len(valid)
           /\ voter' = [k \in 1..Len(valid) |-> VoterPending]
           /\ vote_calls' = VotingTasks(valid)
           /\ agg_calls' = agg_calls + Len(valid)
    /\ gather' = "waiting"
    /\ pc' = "voting"
    /\ UNCHANGED <<completed, synth_call, agg_result, apiVars, arrived,
                   serveVars, callVars, trioVars, parseVars, tallyVars,
                   requestVars, gen, judge_call, outcome>>

\* run_acceptance_voting called on its own over n_cand candidates
RunAcceptanceVoting ==
    /\ pc = "called"
    /\ entry = "run_acceptance_voting"
    /\ voter' = [k \in 1..n_cand |-> VoterPending]
    /\ vote_calls' = VotingTasks(valid_responses)
    /\ agg_calls' = agg_calls + n_cand
    /\ gather' = IF n_cand = 0 THEN "resolved" ELSE "waiting"
    /\ pc' = "voting"
    /\ UNCHANGED <<completed, synth_call, agg_result, apiVars, arrived,
                   serveVars, callVars, trioVars, n_cand, parseVars,
                   tallyVars, requestVars, gen, valid_responses, judge_call,
                   outcome>>

\* what voter v's get_voter_votes may end with: a parsed reply or an LLMError
VoterOutcomes ==
    (IF entry \in {"run_acceptance_voting", "aggregate"}
     THEN TemplateVotes[n_cand] ELSE EnsembleVotes[n_cand])
    \cup {VoterState(e, EmptyVote) : e \in ErrorKinds}

\* voter v's get_voter_votes settles; the gather future takes note of it
VoterSettles(v) ==
    /\ voter[v].st = "pending"
    /\ \E s \in VoterOutcomes :
          /\ voter' = [voter EXCEPT ![v] = s]
          /\ gather' = IF pc = "voting"
                       THEN GatherAfter(gather, s.st,
                                \A k \in 1..n_cand :
                                    k # v => voter[k].st \notin
                                                 {"pending"} \cup ErrorKinds)
                       ELSE gather
    /\ UNCHANGED <<completed, synth_call, agg_result, apiVars, voteVars,
                   serveVars, callVars, trioVars, pc, n_cand, parseVars,
                   tallyVars, requestVars, gen, valid_responses, judge_call,
                   agg_calls, outcome>>

\* await asyncio.gather(*voting_tasks) raises the first voter's LLMError
VotingRaises ==
    /\ pc = "voting"
    /\ gather \in ErrorKinds
    /\ outcome' = Raised(gather)
    /\ pc' = "raised"
    /\ UNCHANGED <<completed, synth_call, agg_result, apiVars, voteVars,
                   serveVars, callVars, trioVars, n_cand, parseVars,
                   tallyVars, requestVars, gen, gather, valid_responses,
                   voter, judge_call, agg_calls>>

\* voting_results, in voter order
Votes == [k \in 1..Len(voter) |-> voter[k].vote]

\* run_acceptance_voting returns the two tallies to its caller
RunAcceptanceVotingReturns ==
    /\ pc = "voting"
    /\ gather = "resolved"
    /\ entry = "run_acceptance_voting"
    /\ acceptance_counts' = AcceptanceTally(Votes, n_cand)
    /\ preference_counts' = PreferenceTally(Votes, n_cand)
    /\ outcome' = Returned(NoText, -1, <<>>, "none")
    /\ pc' = "done"
    /\ UNCHANGED <<completed, synth_call, agg_result, apiVars, voteVars,
                   serveVars, callVars, trioVars, n_cand, parseVars,
                   winner_index, requestVars, gen, gather, valid_responses,
                   voter, judge_call, agg_calls>>

\* run_acceptance_voting returns inside aggregate_acceptance: the winner is
\* picked and the result handed back
AcceptanceVotingReturns ==
    /\ pc = "voting"
    /\ gather = "resolved"
    /\ entry \in {"voting_completion", "aggregate"}
    /\ LET acc == AcceptanceTally(Votes, n_cand)
           pref == PreferenceTally(Votes, n_cand)
           w == aggregate_acceptance_winner(n_cand, acc, pref)
       IN  /\ acceptance_counts' = acc
           /\ preference_counts' = pref
           /\ winner_index' = w
           /\ agg_result' = AggregationResult(w, "acceptance_voting", acc,
                                              pref, NoText)
           /\ outcome' = NodeOutcome(valid_responses, agg_result')
    /\ pc' = "done"
    /\ UNCHANGED <<completed, synth_call, apiVars, voteVars, serveVars,
                   callVars, trioVars, n_cand, parseVars, requestVars, gen,
                   gather, valid_responses, voter, judge_call, agg_calls>>

(***************************************************************************)
(* trio_completion.                                                        *)
(***************************************************************************)
votingVars == <<n_cand, parseVars, tallyVars, requestVars, nodeVars, apiVars,
               callVars, serveVars, voteVars>>

\* the tasks of A and B of node n are created and gathered; a nested trio in
\* one of the two slots starts its own trio_completion
GenStarted(n, nested) ==
    /\ tpc' = [k \in Nodes |->
                  IF k = n \/ (k = 2 /\ nested) THEN "gen" ELSE tpc[k]]
    /\ tcall' = [k \in Nodes |->
                    IF k = n \/ (k = 2 /\ nested)
                    THEN [tcall[k] EXCEPT !.A = MemberPending,
                                          !.B = MemberPending]
                    ELSE tcall[k]]

\* trio_completion is called on the root trio
TrioCompletion ==
    /\ pc = "called"
    /\ entry = "trio_completion"
    /\ GenStarted(1, trio_nested \in {"A", "B"})
    /\ pc' = "trio_running"
    /\ UNCHANGED <<votingVars, trio_nested, tout>>

\* (a member call that swallows the LLMError as _synthesize does)
GeneratedMemberSilent(n, s, o) ==
    IF o = "ok" THEN Member("settled", LeafText(n, s), "None")
    ELSE IF o = "blank" THEN Member("settled", BlankText, "None")
    ELSE Member("settled", NoText, "None")

\* _generate_member_response, backend model: the text, or the message of the
\* LLMError it caught
GeneratedMember(n, s, o) ==
    IF o = "ok" THEN Member("settled", LeafText(n, s), "None")
    ELSE IF o = "blank" THEN Member("settled", BlankText, "None")
    ELSE Member("settled", NoText, o)

TrioMemberSettles(n, s) ==
    /\ s \in {"A", "B"}
    /\ ~IsNested(n, s)
    /\ tcall[n][s].st = "pending"
    /\ \E o \in Settled :
          tcall' = [tcall EXCEPT ![n][s] = GeneratedMember(n, s, o)]
    /\ UNCHANGED <<pc, votingVars, trio_nested, tpc, tout>>

\* _generate_member_response, nested trio: ("trio", text, None), or
\* ("trio", None, e.message) for the TrioError it caught
NestedMember(out) ==
    IF out.kind = "returned" THEN Member("settled", out.text, "None")
    ELSE Member("settled", NoText, "All models failed")

\* (a parent that takes the nested trio's result without awaiting it)
NestedMemberSettlesEarly(s) ==
    /\ s \in {"A", "B"}
    /\ IsNested(1, s)
    /\ tcall[1][s].st = "pending"
    /\ tcall' = [tcall EXCEPT ![1][s] = NestedMember(tout[2])]
    /\ UNCHANGED <<pc, votingVars, trio_nested, tpc, tout>>

\* (a parent that waits for the nested trio's text and misses its error)
NestedMemberSettlesOnReturn(s) ==
    /\ s \in {"A", "B"}
    /\ IsNested(1, s)
    /\ tcall[1][s].st = "pending"
    /\ tpc[2] = "returned"
    /\ tcall' = [tcall EXCEPT ![1][s] = NestedMember(tout[2])]
    /\ UNCHANGED <<pc, votingVars, trio_nested, tpc, tout>>

NestedMemberSettles(s) ==
    /\ s \in {"A", "B"}
    /\ IsNested(1, s)
    /\ tcall[1][s].st = "pending"
    /\ tpc[2] \in {"returned", "raised"}
    /\ tcall' = [tcall EXCEPT ![1][s] = NestedMember(tout[2])]
    /\ UNCHANGED <<pc, votingVars, trio_nested, tpc, tout>>

GatherDone(n) ==
    /\ tpc[n] = "gen"
    /\ tcall[n].A.st = "settled"
    /\ tcall[n].B.st = "settled"

\* what trio_completion on node n ends with is what the caller of the root
\* trio gets
Finish(n, out) ==
    /\ tout' = [tout EXCEPT ![n] = out]
    /\ tpc' = [tpc EXCEPT ![n] = out.kind]
    /\ pc' = IF n # 1 THEN pc
             ELSE IF out.kind = "raised" THEN "raised" ELSE "done"

\* both A and B failed: TrioError with status 502
TrioAllFailed(n) ==
    /\ GatherDone(n)
    /\ Falsy(tcall[n].A.response) /\ Falsy(tcall[n].B.response)
    /\ Finish(n, TrioRaised(tcall[n].A.error, tcall[n].B.error))
    /\ UNCHANGED <<votingVars, trio_nested, tcall>>

\* (a single-survivor return whose details put the survivor's response in
\* the failed member's place)
TrioOneSurvivorSwapped(n) ==
    /\ GatherDone(n)
    /\ Falsy(tcall[n].A.response) # Falsy(tcall[n].B.response)
    /\ LET a == tcall[n].A.response
           b == tcall[n].B.response
       IN  Finish(n, IF Falsy(a) THEN TrioReturned(b, b, BlankText)
                     ELSE TrioReturned(a, BlankText, a))
    /\ UNCHANGED <<votingVars, trio_nested, tcall>>

\* only one of A and B answered: its response is returned, C is not asked
TrioOneSurvivor(n) ==
    /\ GatherDone(n)
    /\ Falsy(tcall[n].A.response) # Falsy(tcall[n].B.response)
    /\ LET a == tcall[n].A.response
           b == tcall[n].B.response
       IN  Finish(n, IF Falsy(a) THEN TrioReturned(b, BlankText, b)
                     ELSE TrioReturned(a, a, BlankText))
    /\ UNCHANGED <<votingVars, trio_nested, tcall>>

\* both answered: _synthesize asks C, a backend model or a nested trio
TrioSynthesize(n) ==
    /\ GatherDone(n)
    /\ ~Falsy(tcall[n].A.response) /\ ~Falsy(tcall[n].B.response)
    /\ tpc' = [k \in Nodes |->
                  IF k = n THEN "synth"
                  ELSE IF IsNested(n, "C") THEN "gen" ELSE tpc[k]]
    /\ tcall' = [k \in Nodes |->
                    IF k = n THEN [tcall[k] EXCEPT !.C = MemberPending]
                    ELSE IF IsNested(n, "C")
                    THEN [tcall[k] EXCEPT !.A = MemberPending,
                                          !.B = MemberPending]
                    ELSE tcall[k]]
    /\ UNCHANGED <<pc, votingVars, trio_nested, tout>>

\* _synthesize, backend model: the text, or None for the LLMError it caught
Synthesized(n, o) ==
    IF o = "ok" THEN Member("settled", LeafText(n, "C"), "None")
    ELSE IF o = "blank" THEN Member("settled", BlankText, "None")
    ELSE Member("settled", NoText, "None")

SynthesisSettles(n) ==
    /\ tpc[n] = "synth"
    /\ ~IsNested(n, "C")
    /\ tcall[n].C.st = "pending"
    /\ \E o \in Settled :
          tcall' = [tcall EXCEPT ![n].C = Synthesized(n, o)]
    /\ UNCHANGED <<pc, votingVars, trio_nested, tpc, tout>>

\* _synthesize, nested trio: its text, or None for the TrioError it caught
NestedSynthesisSettles ==
    /\ tpc[1] = "synth"
    /\ IsNested(1, "C")
    /\ tcall[1].C.st = "pending"
    /\ tpc[2] \in {"returned", "raised"}
    /\ tcall' = [tcall EXCEPT ![1].C =
                    IF tout[2].kind = "returned"
                    THEN Member("settled", tout[2].text, "None")
                    ELSE Member("settled", NoText, "None")]
    /\ UNCHANGED <<pc, votingVars, trio_nested, tpc, tout>>

\* (a return that falls back to B's response when there is no synthesis)
TrioReturnsFallbackB(n) ==
    /\ tpc[n] = "synth"
    /\ tcall[n].C.st = "settled"
    /\ LET a == tcall[n].A.response
           b == tcall[n].B.response
           synthesized == tcall[n].C.response
       IN  Finish(n, TrioReturned(IF Falsy(synthesized) THEN b
                                  ELSE synthesized, a, b))
    /\ UNCHANGED <<votingVars, trio_nested, tcall>>

\* the synthesis, or A's response when there is none
TrioReturns(n) ==
    /\ tpc[n] = "synth"
    /\ tcall[n].C.st = "settled"
    /\ LET a == tcall[n].A.response
           b == tcall[n].B.response
           synthesized == tcall[n].C.response
       IN  Finish(n, TrioReturned(IF Falsy(synthesized) THEN a
                                  ELSE synthesized, a, b))
    /\ UNCHANGED <<votingVars, trio_nested, tcall>>

NextTrio ==
    \/ TrioCompletion
    \/ \E n \in Nodes, s \in Slots : TrioMemberSettles(n, s)
    \/ \E s \in Slots : NestedMemberSettles(s)
    \/ \E n \in Nodes : TrioAllFailed(n)
    \/ \E n \in Nodes : TrioOneSurvivor(n)
    \/ \E n \in Nodes : TrioSynthesize(n)
    \/ \E n \in Nodes : SynthesisSettles(n)
    \/ NestedSynthesisSettles
    \/ \E n \in Nodes : TrioReturns(n)

(***************************************************************************)
(* chat_completions.                                                       *)
(***************************************************************************)
\* raise HTTPException(status_code=...): the handler ends with that status
HttpException(status) ==
    /\ http_status' = status
    /\ outcome' = Raised("HTTPException")
    /\ pc' = "raised"
    /\ served' = served + 1

\* everything of a handler step but pc, the outcome and the status
ApiFrame ==
    UNCHANGED <<n_cand, parseVars, tallyVars, trioVars, gen, gather,
                completed, valid_responses, voter, judge_call, synth_call,
                agg_result, agg_calls, request, models_file, callVars,
                voteVars>>

\* if request.stream: 501
\* an ensemble object names at least one member
HasMembers(e) == e.ensemble >= 1

\* (a parser that accepts an ensemble object without members at the top)
RequestParsesNestedOnly ==
    request.model.kind = "ensemble" =>
        (request.model.nested # NoEnsemble =>
            HasMembers(request.model.nested))

\* the body of the request parses as a ChatCompletionRequest: every
\* ensemble object in request.model, nested ones included, has members
RequestParses ==
    request.model.kind = "ensemble" =>
        /\ HasMembers(request.model.spec)
        /\ request.model.nested # NoEnsemble =>
              HasMembers(request.model.nested)

\* a body that does not parse is answered 422 before the handler runs
RequestValidationError ==
    /\ entry = "chat_completions"
    /\ pc = "called"
    /\ ~RequestParses
    /\ HttpException(422)
    /\ ApiFrame
    /\ UNCHANGED <<requestVars, trio_models, loads, seen>>

RejectStreaming ==
    /\ entry = "chat_completions"
    /\ pc = "called"
    /\ RequestParses
    /\ request.stream
    /\ HttpException(501)
    /\ ApiFrame
    /\ UNCHANGED <<requestVars, trio_models, loads, seen>>

\* request.model is "trio:<name>"
IsTrioReference == request.model.kind = "trio:"

\* trio_models = get_trio_models(): the file is read if the cache is empty
Lookup ==
    /\ trio_models' = get_trio_models
    /\ loads' = IF trio_models.loaded THEN loads ELSE loads + 1
    /\ seen' = Append(seen, trio_models'.models)

\* (a lookup trio_models[model_name] without the membership test: KeyError)
TrioModelKeyError ==
    /\ entry = "chat_completions"
    /\ pc = "called"
    /\ ~request.stream
    /\ IsTrioReference
    /\ Lookup
    /\ request.model.name \notin DOMAIN trio_models'.models
    /\ http_status' = 500
    /\ outcome' = Raised("KeyError")
    /\ pc' = "raised"
    /\ served' = served + 1
    /\ ApiFrame
    /\ UNCHANGED requestVars

\* "trio:<name>" with a name that is not in the registry: 404
TrioModelNotFound ==
    /\ entry = "chat_completions"
    /\ pc = "called"
    /\ ~request.stream
    /\ IsTrioReference
    /\ Lookup
    /\ request.model.name \notin DOMAIN trio_models'.models
    /\ HttpException(404)
    /\ ApiFrame
    /\ UNCHANGED requestVars

\* EnsembleModel(**trio_models[model_name]) for a registry entry without
\* members: the constructor raises ValidationError inside the handler
TrioModelInvalid ==
    /\ entry = "chat_completions"
    /\ pc = "called"
    /\ ~request.stream
    /\ IsTrioReference
    /\ Lookup
    /\ request.model.name \in DOMAIN trio_models'.models
    /\ ~HasMembers(trio_models'.models[request.model.name])
    /\ http_status' = 500
    /\ outcome' = Raised("ValidationError")
    /\ pc' = "raised"
    /\ served' = served + 1
    /\ ApiFrame
    /\ UNCHANGED requestVars

\* the ensemble, method and companion models the handler goes on with: those
\* of the registry entry or of the ensemble object, or the pass-through
\* ensemble of one member
ResolveModel ==
    /\ entry = "chat_completions"
    /\ pc = "called"
    /\ RequestParses
    /\ ~request.stream
    /\ IF IsTrioReference THEN Lookup
       ELSE UNCHANGED <<trio_models, loads, seen>>
    /\ IsTrioReference =>
          /\ request.model.name \in DOMAIN trio_models'.models
          /\ HasMembers(trio_models'.models[request.model.name])
    /\ LET e == IF IsTrioReference
                THEN trio_models'.models[request.model.name]
                ELSE IF request.model.kind = "ensemble" THEN request.model.spec
                ELSE EnsembleModel(1, "random", "none", "none")
       IN  /\ ensemble_size' = e.ensemble
           /\ method' = e.aggregation_method
           /\ judge_model' = e.judge_model
           /\ synthesize_model' = e.synthesize_model
    /\ pc' = "resolved"
    /\ ApiFrame
    /\ UNCHANGED <<entry, http_status, outcome, served>>

\* if len(ensemble) > MAX_ENSEMBLE_SIZE: 400
RejectEnsembleSize ==
    /\ pc = "resolved"
    /\ ensemble_size > MAX_ENSEMBLE_SIZE
    /\ HttpException(400)
    /\ ApiFrame
    /\ UNCHANGED <<requestVars, trio_models, loads, seen>>

\* (a judge check answering 422 Unprocessable Entity)
RejectMissingJudgeUnprocessable ==
    /\ pc = "resolved"
    /\ ensemble_size <= MAX_ENSEMBLE_SIZE
    /\ method = "judge" /\ judge_model = "none"
    /\ HttpException(422)
    /\ ApiFrame
    /\ UNCHANGED <<requestVars, trio_models, loads, seen>>

\* judge without judge_model: 400
RejectMissingJudge ==
    /\ pc = "resolved"
    /\ ensemble_size <= MAX_ENSEMBLE_SIZE
    /\ method = "judge" /\ judge_model = "none"
    /\ HttpException(400)
    /\ ApiFrame
    /\ UNCHANGED <<requestVars, trio_models, loads, seen>>

\* synthesize without synthesize_model: 400
RejectMissingSynthesizer ==
    /\ pc = "resolved"
    /\ ensemble_size <= MAX_ENSEMBLE_SIZE
    /\ ~(method = "judge" /\ judge_model = "none")
    /\ method = "synthesize" /\ synthesize_model = "none"
    /\ HttpException(400)
    /\ ApiFrame
    /\ UNCHANGED <<requestVars, trio_models, loads, seen>>

\* the request passed every check of chat_completions
Validated ==
    /\ pc = "resolved"
    /\ ensemble_size <= MAX_ENSEMBLE_SIZE
    /\ ~(method = "judge" /\ judge_model = "none")
    /\ ~(method = "synthesize" /\ synthesize_model = "none")

\* await voting_completion(...) with one positional argument more than the
\* function declares: Python raises TypeError at the call, before the body
\* of voting_completion runs; the handler ends with a server error
CallVotingCompletion ==
    /\ Validated
    /\ VotingCompletionArgs > VotingCompletionParams
    /\ http_status' = 500
    /\ outcome' = Raised("TypeError")
    /\ pc' = "raised"
    /\ served' = served + 1
    /\ ApiFrame
    /\ UNCHANGED <<requestVars, trio_models, loads, seen>>

NextApi ==
    \/ RequestValidationError
    \/ RejectStreaming
    \/ TrioModelNotFound
    \/ TrioModelInvalid
    \/ ResolveModel
    \/ RejectEnsembleSize
    \/ RejectMissingJudge
    \/ RejectMissingSynthesizer
    \/ CallVotingCompletion

Next ==
    \/ NextTrio
    \/ NextApi
    \/ SingleModelCall
    \/ SingleModelRaises
    \/ SingleModelReturns
    \/ GenerateResponses
    \/ \E i \in DOMAIN gen : MemberSettles(i)
    \/ GenerationRaises
    \/ NoValidResponse
    \/ OneValidResponse
    \/ AggregateRejects
    \/ AggregateEmpty
    \/ AggregateRandom
    \/ AggregateJudge
    \/ JudgeRaises
    \/ JudgeReturns
    \/ AggregateSynthesize
    \/ SynthesizeRaises
    \/ SynthesizeReturns
    \/ AggregateAcceptance
    \/ RunAcceptanceVoting
    \/ \E v \in 1..Len(voter) : VoterSettles(v)
    \/ VotingRaises
    \/ RunAcceptanceVotingReturns
    \/ AcceptanceVotingReturns

Spec == Init /\ [][Next]_vars

(***************************************************************************)
(* Specification SpecVote: aggregate() called with method                  *)
(* acceptance_voting, the voters' replies arriving in any order and the    *)
(* order of arrival kept.                                                  *)
(***************************************************************************)
InitVote == Init /\ entry = "aggregate" /\ method = "acceptance_voting"

\* voter v's reply (or failure) arrives: its get_voter_votes task settles
\* and the gather future takes note of it
VoterReplyArrives(v) ==
    /\ voter[v].st = "pending"
    /\ \E s \in VoterOutcomes :
          /\ voter' = [voter EXCEPT ![v] = s]
          /\ gather' = IF pc = "voting"
                       THEN GatherAfter(gather, s.st,
                                \A k \in 1..n_cand :
                                    k # v => voter[k].st \notin
                                                 {"pending"} \cup ErrorKinds)
                       ELSE gather
    /\ arrived' = Append(arrived, v)
    /\ UNCHANGED <<completed, synth_call, agg_result, apiVars, vote_calls,
                   serveVars, callVars, trioVars, pc, n_cand, parseVars,
                   tallyVars, requestVars, gen, valid_responses, judge_call,
                   agg_calls, outcome>>

NextVote ==
    \/ AggregateEmpty
    \/ AggregateAcceptance
    \/ \E v \in 1..Len(voter) : VoterReplyArrives(v)
    \/ VotingRaises
    \/ AcceptanceVotingReturns

SpecVote == InitVote /\ [][NextVote]_vars

(***************************************************************************)
(* Specification SpecServe: chat_completions serving one request after     *)
(* another in one process.  The handler runs from its start to the call of *)
(* voting_completion without an await, so requests do not interleave in    *)
(* it.  The YAML file may be edited between requests.                      *)
(***************************************************************************)
\* the ensemble definitions met in the requests served
ServedEnsembles ==
    {EnsembleModel(0, "random", "none", "none"),
     EnsembleModel(2, "random", "none", "none"),
     EnsembleModel(MAX_ENSEMBLE_SIZE + 1, "random", "none", "none"),
     EnsembleModel(2, "judge", "none", "none"),
     EnsembleModel(2, "synthesize", "none", "none")}

ServedRequests ==
    {ChatCompletionRequest(PlainModel, TRUE)}
    \cup {ChatCompletionRequest(m, FALSE) :
            m \in {PlainModel, TrioReference("known"),
                   TrioReference("unknown")}
                  \cup {InlineEnsemble(e) : e \in ServedEnsembles}}

\* the contents the YAML file may have: no definitions, or "known"
RegistryFiles ==
    {[name \in {} |-> NoEnsemble]}
    \cup {[name \in {"known"} |-> EnsembleModel(size, "random", "none",
                                                "none")] : size \in {0, 2, 3}}

InitServe ==
    /\ pc = "called"
    /\ entry = "chat_completions"
    /\ request \in ServedRequests
    /\ models_file \in RegistryFiles
    /\ http_status = 0
    /\ trio_models = NotLoaded
    /\ served = 0
    /\ loads = 0
    /\ seen = <<>>
    /\ ensemble_size = 0
    /\ method = "acceptance_voting"
    /\ judge_model = "none"
    /\ synthesize_model = "none"
    /\ n_cand = 0
    /\ result = <<>>
    /\ vote = EmptyVote
    /\ acceptance_counts = <<>>
    /\ preference_counts = <<>>
    /\ winner_index = -1
    /\ gen = <<>>
    /\ gather = "none"
    /\ completed = <<>>
    /\ valid_responses = <<>>
    /\ voter = <<>>
    /\ judge_call = "idle"
    /\ synth_call = "idle"
    /\ agg_result = NoResult
    /\ CallIdle
    /\ agg_calls = 0
    /\ outcome = NoOutcome
    /\ TrioIdle

\* the next request reaches chat_completions; the module global
\* _trio_models is what the requests before left
NewRequest ==
    /\ entry = "chat_completions"
    /\ pc \in {"done", "raised"}
    /\ served < MaxRequests
    /\ request' \in ServedRequests
    /\ http_status' = 0
    /\ outcome' = NoOutcome
    /\ ensemble_size' = 0
    /\ method' = "acceptance_voting"
    /\ judge_model' = "none"
    /\ synthesize_model' = "none"
    /\ pc' = "called"
    /\ UNCHANGED <<entry, trio_models, models_file, serveVars, callVars,
                   voteVars, trioVars, n_cand, parseVars, tallyVars, gen,
                   gather, completed, valid_responses, voter, judge_call,
                   synth_call, agg_result, agg_calls>>

\* the YAML file at trio_models_path is rewritten while the process runs
FileEdited ==
    /\ entry = "chat_completions"
    /\ pc \in {"done", "raised"}
    /\ served < MaxRequests
    /\ models_file' \in RegistryFiles \ {models_file}
    /\ UNCHANGED <<pc, request, http_status, trio_models, serveVars, voteVars,
                   callVars, trioVars, n_cand, parseVars, tallyVars,
                   requestVars, nodeVars>>

NextServe == NextApi \/ NewRequest \/ FileEdited

SpecServe == InitServe /\ [][NextServe]_vars

(***************************************************************************)
(* Properties.                                                             *)
(***************************************************************************)
Candidates == 0..(n_cand - 1)

\* the (acceptance, preference) pair of candidate i is lexicographically
\* greater than that of candidate j
PairGreater(i, j) ==
    \/ At(acceptance_counts, i) > At(acceptance_counts, j)
    \/ /\ At(acceptance_counts, i) = At(acceptance_counts, j)
       /\ At(preference_counts, i) > At(preference_counts, j)

PairEqual(i, j) ==
    /\ At(acceptance_counts, i) = At(acceptance_counts, j)
    /\ At(preference_counts, i) = At(preference_counts, j)

\* C1: for every n >= 1 and every pair of tallies of length n, the winner
\* chosen by pick_winner and by aggregate_acceptance is a candidate such that
\* no candidate has a lexicographically greater (acceptance, preference)
\* pair, and it is the lowest index among those holding the maximal pair.
C1_WinnerIsFirstMaximal ==
    (pc \in {"picked", "aggregated"} /\ n_cand >= 1) =>
        /\ winner_index \in Candidates
        /\ \A j \in Candidates :
              /\ ~PairGreater(j, winner_index)
              /\ PairEqual(j, winner_index) => winner_index <= j

\* a tie for the maximal pair between the winner and a later candidate
C1_Witness ==
    /\ pc = "picked"
    /\ n_cand >= 3
    /\ winner_index = 1
    /\ PairEqual(2, winner_index)
    /\ PairGreater(winner_index, 0)

\* C3: a PREFERRED number that is not among the same voter's accepted
\* numbers is discarded: the returned preference is then empty, and every
\* returned preference is also among that voter's returned acceptances.
C3_PreferredOnlyIfAccepted ==
    pc = "vote_returned" =>
        /\ Elems(vote.preferred) \subseteq Elems(vote.accepted)
        /\ (PreferredNumberFrom(result, 1) - 1) \notin Elems(vote.accepted)
              => vote.preferred = <<>>

\* the reply "ACCEPTED: 1 <newline> PREFERRED: 2": a valid preferred number
\* the voter did not accept
C3_Witness ==
    /\ pc = "vote_returned"
    /\ n_cand = 2
    /\ result = <<ACC, Num(1), NL, PREF, Num(2)>>
    /\ vote = Vote(<<0>>, <<>>)

\* C4: get_voter_votes returns only indices idx with 0 <= idx < n, each the
\* 0-based form of a number written in the reply; numbers <= 0 or greater
\* than the candidate count are discarded and a vote is always returned.
C4_VotesInRange ==
    pc = "vote_returned" =>
        /\ vote \in [accepted : Seq(Candidates), preferred : Seq(Candidates)]
        /\ \A idx \in Elems(vote.accepted) \cup Elems(vote.preferred) :
              Num(idx + 1) \in Elems(result)
        /\ Len(vote.preferred) <= 1

\* the reply "ACCEPTED: 0 1 3 <newline> PREFERRED: 3" over two candidates
C4_Witness ==
    /\ pc = "vote_returned"
    /\ n_cand = 2
    /\ \E r \in {result} :
          /\ Len(r) >= 4
          /\ r[1] = ACC /\ r[2] = Num(0) /\ r[3] = Num(1) /\ r[4] = Num(3)
    /\ vote.accepted = <<0>>

(***************************************************************************)
(* Properties of run_acceptance_voting, voting_completion and              *)
(* trio_completion.                                                        *)
(***************************************************************************)
VoterIds == 1..Len(voter)
MemberIds == 1..ensemble_size

\* the voting round has come back with its tallies
Tallied == pc = "done" /\ Len(voter) > 0

\* the voters whose accepted list / preference holds candidate i
Accepting(i) == {v \in VoterIds : i \in Elems(voter[v].vote.accepted)}
Preferring(i) == {v \in VoterIds : i \in Elems(voter[v].vote.preferred)}

\* C2: for every combination of voter replies over n candidates,
\* acceptance_counts[i] is the number of voters whose accepted set contains
\* i and preference_counts[i] the number of voters whose valid preference
\* is i: a voter counts at most once for a candidate.
C2_TallyCountsVoters ==
    Tallied =>
        \A i \in Candidates :
            /\ At(acceptance_counts, i) = Cardinality(Accepting(i))
            /\ At(preference_counts, i) = Cardinality(Preferring(i))

\* how often index i is written in a list
Occurrences(list, i) == Cardinality({k \in 1..Len(list) : list[k] = i})

\* the entries for candidate i in the lists of the voters from v on whose
\* reply held a marker
RECURSIVE MarkedEntries(_, _, _)
MarkedEntries(field, i, v) ==
    IF v > Len(voter) THEN 0
    ELSE (IF voter[v].st = "marked"
          THEN Occurrences(voter[v].vote[field], i) ELSE 0)
         + MarkedEntries(field, i, v + 1)

\* C5: a voter whose reply is empty, or holds neither marker, contributes
\* the empty vote ([], []); the tallies are those of the other voters alone,
\* and run_acceptance_voting raises only if some voter's call raised.
C5_EmptyVoteLeavesTallies ==
    /\ \A v \in VoterIds :
          voter[v].st \in {"blank", "nomarker"} => voter[v].vote = EmptyVote
    /\ Tallied =>
          \A i \in Candidates :
              /\ At(acceptance_counts, i) = MarkedEntries("accepted", i, 1)
              /\ At(preference_counts, i) = MarkedEntries("preferred", i, 1)
    /\ (entry = "run_acceptance_voting" /\ pc = "raised") =>
          \E v \in VoterIds : voter[v].st \in ErrorKinds

\* three voters: an empty reply, a reply without marker, a counted vote
C5_Witness ==
    /\ Tallied
    /\ n_cand = 3
    /\ voter[1].st = "blank"
    /\ voter[2].st = "nomarker"
    /\ voter[3].st = "marked"
    /\ acceptance_counts = <<1, 0, 1>>
    /\ outcome.kind = "returned"

Finished == pc \in {"done", "raised"}
InEnsemble == entry = "voting_completion" /\ ensemble_size >= 1
Succeeded == {i \in MemberIds : gen[i] = "ok"}
AllMembersSettled == \A i \in MemberIds : gen[i] \in Settled

\* nothing but member generation calls has failed
OnlyMembersFailed ==
    /\ judge_call \notin ErrorKinds
    /\ \A v \in VoterIds : voter[v].st \notin ErrorKinds
    /\ outcome.error # "ValueError"

\* C6: at an ensemble node a member's Backend Call failure is never fatal
\* alone: whenever at least one member succeeds, the node returns a text and
\* no error reaches the caller, whatever the other members failed with.
C6_MemberFailureNotFatal ==
    (InEnsemble /\ Finished /\ Succeeded # {} /\ OnlyMembersFailed) =>
        /\ outcome.kind = "returned"
        /\ outcome.text # NoText

\* C7: if exactly one member of an ensemble of two or more succeeds, no
\* aggregation Backend Call is made, the survivor's text is returned
\* verbatim and the outcome has winner_index 0 and a single candidate with
\* zero tallies.
C7_SingleSurvivorReturned ==
    (InEnsemble /\ ensemble_size >= 2 /\ Finished /\ AllMembersSettled
       /\ Cardinality(Succeeded) = 1) =>
        \A i \in Succeeded :
            /\ agg_calls = 0
            /\ outcome.kind = "returned"
            /\ outcome.text = Resp(i)
            /\ outcome.winner_index = 0
            /\ outcome.candidates = <<Candidate(i, 0, 0)>>

\* a trio node none of whose members A and B produced a response
TrioNoneSucceeded(n) ==
    /\ tpc[n] \in {"returned", "raised"}
    /\ Falsy(tcall[n].A.response)
    /\ Falsy(tcall[n].B.response)

TrioTotalFailure ==
    \A n \in Nodes :
        TrioNoneSucceeded(n) =>
            /\ tout[n].kind = "raised"
            /\ tout[n].text = NoText
            /\ tout[n].status_code = 502
            /\ tout[n].error_a = tcall[n].A.error
            /\ tout[n].error_b = tcall[n].B.error
            /\ n = 1 => pc = "raised"

\* C8 (as stated): if zero members of an ensemble node succeed, the node
\* does not return a text: it fails with a total-failure error that names
\* the per-member failure reasons (in trio_completion a TrioError with
\* status 502).
C8_TotalFailureEverywhere ==
    /\ TrioTotalFailure
    /\ (InEnsemble /\ Finished /\ AllMembersSettled /\ Succeeded = {}) =>
          /\ outcome.kind = "raised"
          /\ outcome.text = NoText

\* C8 (amended): if neither A nor B of a trio node produced a response,
\* trio_completion returns no text and raises TrioError with status 502
\* naming A's and B's failure reasons; voting_completion has no such error:
\* when every member's response is empty it returns the apology text with
\* winner_index -1 and no candidates.
C8_TrioTotalFailure ==
    /\ TrioTotalFailure
    /\ (InEnsemble /\ Finished /\ \A i \in MemberIds : gen[i] = "blank") =>
          outcome = Returned(SorryText, -1, <<>>, "none")

\* A failed with an LLMError, B with another one
C8_Witness ==
    /\ pc = "raised"
    /\ entry = "trio_completion"
    /\ tcall[1].A.error = "connection"
    /\ tcall[1].B.error = "http_status"
    /\ tout[1].kind = "raised"

\* C9: when every model of the ensemble fails to produce a response,
\* voting_completion returns the text "Sorry, I couldn't generate a
\* response." with winner_index -1 and an empty candidate list.
C9_AllFailedReturnsApology ==
    (InEnsemble /\ Finished /\ AllMembersSettled /\ Succeeded = {}) =>
        /\ outcome.kind = "returned"
        /\ outcome.text = SorryText
        /\ outcome.winner_index = -1
        /\ outcome.candidates = <<>>

\* C10: an ensemble node produces its outcome (text or error) only after
\* every member's Backend Call has settled.
C10_OutcomeAfterAllSettled ==
    /\ (InEnsemble /\ outcome.kind # "none") => AllMembersSettled
    /\ \A n \in Nodes :
          tout[n].kind # "none" =>
              /\ tcall[n].A.st = "settled"
              /\ tcall[n].B.st = "settled"

\* the members of a candidate list, in list order
CandidateModels(candidates) ==
    [k \in 1..Len(candidates) |-> candidates[k].model]

\* a list of members that follows declaration order
Ascending(list) ==
    \A k, l \in 1..Len(list) : k < l => list[k] < list[l]

\* the node has filtered the generated responses
Filtered ==
    /\ entry = "voting_completion"
    /\ ensemble_size >= 2
    /\ pc \in {"judging", "voting", "done"}
    /\ Succeeded # {}

\* C11: whatever the order in which the members' calls complete, the
\* surviving members are kept in declaration order, each with its own
\* response, in valid_responses and in the outcome's candidate list.
C11_DeclarationOrder ==
    /\ Filtered =>
          /\ Ascending(valid_responses)
          /\ Elems(valid_responses) = Succeeded
    /\ (Filtered /\ pc = "done") =>
          /\ CandidateModels(outcome.candidates) = valid_responses
          /\ \A k \in 1..Len(outcome.candidates) :
                outcome.candidates[k].response
                    = Resp(outcome.candidates[k].model)

\* the last declared member settled first, and all three are candidates
C11_Witness ==
    /\ Filtered
    /\ pc = "done"
    /\ ensemble_size = 3
    /\ completed = <<3, 2, 1>>
    /\ CandidateModels(outcome.candidates) = <<1, 2, 3>>

\* the judge's call has returned a reply (kept in result)
JudgeReplied == pc = "done" /\ judge_call \in {"ok", "blank"}

\* the positions of the reply that hold an integer
IntegerPositions == {p \in 1..Len(result) : result[p].kind = "num"}

\* the first integer of the reply (0 when it holds none)
FirstInteger ==
    IF IntegerPositions = {} THEN 0
    ELSE result[CHOOSE p \in IntegerPositions :
                    \A q \in IntegerPositions : p <= q].val

\* C12: over n >= 1 candidates aggregate_judge takes the first integer k of
\* the judge's reply: the winner is k-1 if 1 <= k <= n, and 0 if the reply
\* is empty, holds no integer or k is out of range; the method reported is
\* judge in every case.
C12_JudgeFirstInteger ==
    (JudgeReplied /\ n_cand >= 1) =>
        /\ agg_result.method = "judge"
        /\ agg_result.winner_index =
              IF 1 <= FirstInteger /\ FirstInteger <= n_cand
              THEN FirstInteger - 1 ELSE 0

\* the reply "... 2 ... 1" over two candidates names the second one
C12_Witness ==
    /\ JudgeReplied
    /\ n_cand = 2
    /\ result = <<W, Num(2), W, Num(1)>>
    /\ agg_result.winner_index = 1

\* the integer at position p of the reply is within 1..n
InRangeAt(p) == 1 <= result[p].val /\ result[p].val <= n_cand

\* position p holds the first integer of the reply
FirstAt(p) == \A q \in IntegerPositions : p <= q

\* C28 as stated: for every judge reply that contains an integer k with
\* 1 <= k <= n anywhere in its free text, aggregate_judge over n candidates
\* returns winner_index k-1.
C28_AnyInRangeIntegerWins ==
    JudgeReplied =>
        \A p \in IntegerPositions :
            InRangeAt(p) => agg_result.winner_index = result[p].val - 1

\* C28, amended: an integer k with 1 <= k <= n in the judge's reply yields
\* winner_index k-1 if it is the first integer of the reply; an integer that
\* follows another one is ignored, so a reply whose first integer is out of
\* range yields winner_index 0 even if an integer within 1..n follows.
C28_InRangeIntegerWinsIfFirst ==
    JudgeReplied =>
        \A p \in IntegerPositions :
            /\ (InRangeAt(p) /\ FirstAt(p)) =>
                  agg_result.winner_index = result[p].val - 1
            /\ (~InRangeAt(p) /\ FirstAt(p)) => agg_result.winner_index = 0

\* the reply "... 0 ... 2" over two candidates: 2 is in range but not first
C28_Witness ==
    /\ JudgeReplied
    /\ n_cand = 2
    /\ result = <<W, Num(0), W, Num(2)>>
    /\ agg_result.winner_index = 0

\* acceptance voting was started on the responses of the ensemble's members
EnsembleVoting ==
    /\ entry = "voting_completion"
    /\ method = "acceptance_voting"
    /\ pc \in {"voting", "done", "raised"}
    /\ vote_calls # <<>>

\* the voter calls addressed to member i
VoterCallsTo(i) == {k \in 1..Len(vote_calls) : vote_calls[k].model = i}

\* C29: in acceptance_voting exactly one voter call is made per surviving
\* candidate, addressed to the model that produced that candidate; every
\* voter is shown the full list of surviving candidates; a member whose
\* generation gave no response casts no vote.
C29_OneVoterPerSurvivor ==
    EnsembleVoting =>
        /\ Len(vote_calls) = Len(valid_responses)
        /\ Len(voter) = Len(vote_calls)
        /\ \A k \in 1..Len(vote_calls) :
              /\ vote_calls[k].model = valid_responses[k]
              /\ vote_calls[k].responses = valid_responses
        /\ \A i \in 1..ensemble_size :
              Cardinality(VoterCallsTo(i)) = IF gen[i] = "ok" THEN 1 ELSE 0

\* three members, the second without a response: two voters, each shown
\* the responses of members 1 and 3
C29_Witness ==
    /\ EnsembleVoting
    /\ pc = "done"
    /\ gen = <<"ok", "blank", "ok">>
    /\ vote_calls = <<VoteCall(1, <<1, 3>>), VoteCall(3, <<1, 3>>)>>

\* a call goes from "idle" to "pending" when it is issued and from "pending"
\* to one of Settled when its reply or its error arrives
IssuedOnce(before, after) ==
    /\ before = "pending" => after \in {"pending"} \cup Settled
    /\ before \in Settled => after = before

\* the same for a member call of a trio, whose state is "idle", "pending"
\* or "settled"
TrioIssuedOnce(before, after) ==
    /\ before.st = "pending" => after.st \in {"pending", "settled"}
    /\ before.st = "settled" => after = before

\* the aggregation calls issued so far: the voters', the judge's and the
\* synthesize model's
AggregationCallsIssued ==
    Len(voter) + (IF judge_call = "idle" THEN 0 ELSE 1)
               + (IF synth_call = "idle" THEN 0 ELSE 1)

\* C30: while one request is served, at most one generation Backend Call is
\* issued per ensemble member and at most one call per voter, judge or
\* synthesizer: a call that was issued is never issued again, whether it
\* was answered or failed.
C30_NoCallIssuedTwice ==
    /\ [](/\ agg_calls = AggregationCallsIssued
          /\ \A j, k \in 1..Len(completed) :
                completed[j] = completed[k] => j = k)
    /\ [][/\ \A i \in DOMAIN gen :
                i \in DOMAIN gen' /\ IssuedOnce(gen[i], gen'[i])
          /\ \A v \in DOMAIN voter :
                /\ v \in DOMAIN voter'
                /\ voter[v].st # "pending" => voter'[v] = voter[v]
          /\ IssuedOnce(judge_call, judge_call')
          /\ IssuedOnce(synth_call, synth_call')
          /\ \A n \in Nodes, s \in Slots :
                TrioIssuedOnce(tcall[n][s], tcall'[n][s])]_vars

\* the first member's call failed, the second member answered afterwards,
\* and the request ended with the failure: member 1 was called once
C30_Witness ==
    /\ entry = "voting_completion"
    /\ pc = "raised"
    /\ ensemble_size = 2
    /\ gen[1] \in ErrorKinds
    /\ gen[2] = "ok"
    /\ completed = <<1, 2>>

\* the judge's or the synthesize model's Backend Call failed
AggregatorFailed == judge_call \in ErrorKinds \/ synth_call \in ErrorKinds

\* C13: if the Backend Call to the judge model or to the synthesize model
\* fails, a node with two or more surviving candidates still returns the
\* first surviving candidate's text with the requested method reported; the
\* failure never reaches the caller as an error.
C13_AggregatorFailureFallsBack ==
    (entry = "voting_completion" /\ Len(valid_responses) >= 2 /\ Finished
       /\ AggregatorFailed) =>
        /\ outcome.kind = "returned"
        /\ outcome.text = Resp(valid_responses[1])
        /\ outcome.aggregation_method = method

\* aggregate_random has returned its result
RandomReturned == pc = "done" /\ agg_result.method = "random"

\* C14: aggregate_random returns a winner_index in 0..n-1 for a list of
\* n >= 1 candidates, and -1 for the empty list.
C14_RandomWinnerInRange ==
    RandomReturned =>
        IF valid_responses = <<>> THEN agg_result.winner_index = -1
        ELSE /\ 0 <= agg_result.winner_index
             /\ agg_result.winner_index < Len(valid_responses)

\* the last of two candidates is drawn
C14_Witness ==
    /\ RandomReturned
    /\ Len(valid_responses) = 2
    /\ agg_result.winner_index = 1

\* an ensemble node with method synthesize has finished, two or more of its
\* members answered and no member's call raised
SynthesizeNodeFinished ==
    /\ entry = "voting_completion"
    /\ method = "synthesize"
    /\ Finished
    /\ \A i \in MemberIds : gen[i] \in {"ok", "blank"}
    /\ Cardinality(Succeeded) >= 2

\* the first surviving candidate
FirstSurvivor == CHOOSE i \in Succeeded : \A k \in Succeeded : i <= k

\* C15: with method synthesize and two or more surviving candidates, unless
\* the synthesize model's call fails or returns empty text, the node's
\* final text is the synthesized text and the outcome reports winner_index
\* -1 and method synthesize.
C15_SynthesizedTextReturned ==
    (SynthesizeNodeFinished /\ synth_call \notin {"blank"} \cup ErrorKinds) =>
        /\ outcome.kind = "returned"
        /\ outcome.text = SynthText
        /\ outcome.winner_index = -1
        /\ outcome.aggregation_method = "synthesize"

\* C16: with method synthesize, an empty synthesis reply makes the result
\* fall back to the first surviving candidate: winner_index 0 (not -1) and
\* no synthesized text; unless the synthesize model's call fails or returns
\* text, the node's text is the first surviving candidate's own text.
C16_EmptySynthesisFallsBack ==
    /\ (pc = "done" /\ synth_call = "blank") =>
          /\ agg_result.winner_index = 0
          /\ agg_result.synthesized_response = NoText
    /\ (SynthesizeNodeFinished /\ synth_call \notin {"ok"} \cup ErrorKinds) =>
          /\ outcome.kind = "returned"
          /\ outcome.text = Resp(FirstSurvivor)
          /\ outcome.winner_index = 0

(***************************************************************************)
(* Properties of chat_completions.                                         *)
(***************************************************************************)
\* the handler has ended
ApiDone == entry = "chat_completions" /\ pc \in {"done", "raised"}

\* no Backend Call was issued: no generation, vote, judge or synthesis call
NoBackendCall ==
    /\ \A i \in DOMAIN gen : gen[i] = "idle"
    /\ agg_calls = 0
    /\ judge_call = "idle"
    /\ synth_call = "idle"
    /\ \A n \in Nodes, s \in Slots : tcall[n][s].st = "idle"

\* the method lacks its companion model
MissingCompanion ==
    \/ method = "judge" /\ judge_model = "none"
    \/ method = "synthesize" /\ synthesize_model = "none"

\* C17: a request whose ensemble has more than 9 members is rejected with
\* HTTP 400 and no Backend Call is made for it; an ensemble of exactly 9
\* members passes the size check and is dispatched: its members' Backend
\* Calls are issued.
C17_SizeLimit ==
    /\ (ApiDone /\ ensemble_size > MAX_ENSEMBLE_SIZE) =>
          /\ http_status = 400
          /\ NoBackendCall
    /\ (ApiDone /\ ensemble_size = MAX_ENSEMBLE_SIZE /\ ~MissingCompanion) =>
          /\ http_status # 400
          /\ ~NoBackendCall

\* C18: a request with method judge and no judge_model, or with method
\* synthesize and no synthesize_model, is rejected with HTTP 400 before any
\* Backend Call is made.
C18_CompanionModelRequired ==
    (ApiDone /\ MissingCompanion) =>
        /\ http_status = 400
        /\ outcome = Raised("HTTPException")
        /\ NoBackendCall

\* a two-member ensemble with method judge and no judge_model is rejected
C18_Witness ==
    /\ ApiDone
    /\ ensemble_size = 2
    /\ method = "judge"
    /\ judge_model = "none"
    /\ http_status = 400

\* C19: a model string trio:<name> whose name is not in the registry is
\* rejected with HTTP 404: the request ends without any Backend Call and
\* without a crash.
C19_UnknownTrioModel ==
    (ApiDone /\ ~request.stream /\ request.model.kind = "trio:"
       /\ request.model.name \notin DOMAIN models_file) =>
        /\ http_status = 404
        /\ outcome = Raised("HTTPException")
        /\ NoBackendCall

\* "trio:unknown" is looked up in a registry that holds another name
C19_Witness ==
    /\ ApiDone
    /\ request.model = TrioReference("unknown")
    /\ trio_models.loaded
    /\ "known" \in DOMAIN trio_models.models
    /\ http_status = 404

\* voting_completion over a single-member ensemble
PassThrough == entry = "voting_completion" /\ ensemble_size = 1

\* C20: for a single-member ensemble voting_completion makes exactly one
\* Backend Call and runs no aggregation; on success it returns that model's
\* text verbatim with winner_index 0, aggregation method none and exactly
\* one candidate.
C20_PassThrough ==
    PassThrough =>
        /\ agg_calls = 0
        /\ voter = <<>> /\ judge_call = "idle" /\ synth_call = "idle"
        /\ agg_result = NoResult
        /\ Finished => completed = <<1>>
        /\ (Finished /\ gen[1] = "ok") =>
              outcome = Returned(Resp(1), 0, <<Candidate(1, 0, 0)>>, "none")

\* the single model answered
C20_Witness ==
    /\ PassThrough
    /\ pc = "done"
    /\ gen[1] = "ok"
    /\ outcome.text = Resp(1)

(***************************************************************************)
(* Properties of the Backend Calls' arguments.                             *)
(***************************************************************************)
\* a generation call (generate_responses, or the single-member path of
\* voting_completion) has been issued
GenerationCallIssued == pc = "sent" /\ entry \in GenerationSites

\* the system prompt a call made through fetch_completion_simple carries
SentSystemPrompt == call.messages[1].content

\* the positions of the conversation's system messages
SystemTurns == {k \in 1..Len(messages) : messages[k].role = "system"}

\* C21: for every member and every conversation, the system prompt sent to
\* the member's Backend Call is the member's own override if it has one,
\* else the ambient system prompt of the conversation if the conversation
\* has one, else the default "You are a helpful assistant."
C21_SystemPromptPrecedence ==
    GenerationCallIssued =>
        IF Truthy(callee.system_prompt)
        THEN SentSystemPrompt = callee.system_prompt
        ELSE IF SystemTurns # {}
        THEN \E k \in SystemTurns : SentSystemPrompt = messages[k].content
        ELSE SentSystemPrompt = DEFAULT_SYSTEM_PROMPT

\* C22: the request's max_tokens and temperature are forwarded unchanged to
\* every Backend Call made while serving the request: the generation calls
\* and the vote, judge and synthesize calls alike.
C22_SettingsForwarded ==
    pc = "sent" =>
        /\ call.max_tokens = max_tokens
        /\ call.temperature = temperature

\* C27: the message list that trio_completion sends to member A's or B's
\* Backend Call is the member's own messages followed by the request
\* messages, and is exactly the request messages when the member has no
\* messages of its own.
C27_MemberMessagesPrepended ==
    (pc = "sent" /\ entry = "_generate_member_response") =>
        /\ call.messages = callee.messages \o messages
        /\ callee.messages = <<>> => call.messages = messages

(***************************************************************************)
(* Properties of the registry of named ensembles.                          *)
(***************************************************************************)
\* every lookup of an alias got the same registry
SameMapping == \A i, j \in DOMAIN seen : seen[i] = seen[j]

VotedOn ==
    /\ pc = "done"
    /\ entry = "aggregate"
    /\ method = "acceptance_voting"
    /\ Len(voter) > 0

\* the entries for candidate i in the lists of the voters in V, summed in no
\* particular order
RECURSIVE EntriesOf(_, _, _)
EntriesOf(field, i, V) ==
    IF V = {} THEN 0
    ELSE LET v == CHOOSE x \in V : TRUE
         IN  Occurrences(voter[v].vote[field], i)
             + EntriesOf(field, i, V \ {v})

\* C24: for fixed candidates and fixed voter replies, the tallies and the
\* acceptance_voting winner are the same for every order in which the
\* concurrent voters' replies arrive: whatever the order of arrival, the
\* tallies are the sums of the voters' entries and the winner is the
\* earliest-declared candidate among those with the maximal pair.
C24_ArrivalOrderIrrelevant ==
    VotedOn =>
        /\ Elems(arrived) = VoterIds
        /\ \A i \in Candidates :
              /\ At(acceptance_counts, i) = EntriesOf("accepted", i, VoterIds)
              /\ At(preference_counts, i) = EntriesOf("preferred", i, VoterIds)
        /\ agg_result.winner_index = winner_index
        /\ winner_index \in Candidates
        /\ \A j \in Candidates :
              /\ ~PairGreater(j, winner_index)
              /\ PairEqual(j, winner_index) => winner_index <= j

\* the second voter's reply arrived before the first's, both candidates hold
\* the same non-zero tallies and the first candidate wins
C24_Witness ==
    /\ VotedOn
    /\ n_cand = 2
    /\ arrived = <<2, 1>>
    /\ PairEqual(0, 1)
    /\ At(acceptance_counts, 0) >= 1
    /\ winner_index = 0

(***************************************************************************)
(* Properties of trio_completion's fallbacks.                              *)
(***************************************************************************)
\* trio_completion on node n is over and exactly one of A and B had
\* produced a response
OneSurvivor(n) ==
    /\ tpc[n] \in {"returned", "raised"}
    /\ Falsy(tcall[n].A.response) # Falsy(tcall[n].B.response)

\* C25: in trio_completion, if exactly one of members A and B succeeds, the
\* surviving member's text is returned verbatim, member C is never called
\* (nor is a trio nested in C started), and the details record an empty
\* response for the failed member.
C25_SurvivorReturned ==
    \A n \in Nodes :
        OneSurvivor(n) =>
            LET a == tcall[n].A.response
                b == tcall[n].B.response
            IN  /\ tout[n].kind = "returned"
                /\ tout[n].text = (IF Falsy(a) THEN b ELSE a)
                /\ tout[n].response_a = (IF Falsy(a) THEN BlankText ELSE a)
                /\ tout[n].response_b = (IF Falsy(b) THEN BlankText ELSE b)
                /\ tcall[n].C = MemberIdle
                /\ IsNested(n, "C") => tpc[2] = "idle"

\* A's call raised, B answered, C is a nested trio and B's text came back
C25_Witness ==
    /\ OneSurvivor(1)
    /\ tcall[1].A.error \in ErrorKinds
    /\ trio_nested = "C"
    /\ tout[1].text = LeafText(1, "B")

\* node n asked C for a synthesis and got none: C's call failed (None) or
\* returned empty text
NoSynthesis(n) ==
    /\ tcall[n].C.st = "settled"
    /\ Falsy(tcall[n].C.response)

\* C26: in trio_completion, when both A and B succeed and member C's
\* synthesis fails or returns empty text, the returned text is A's (the
\* first member's) response, the details still carry both A's and B's
\* responses, and no error is raised.
C26_SynthesisFailureFallsBack ==
    \A n \in Nodes :
        NoSynthesis(n) =>
            /\ tpc[n] # "raised"
            /\ tpc[n] = "returned" =>
                  /\ tout[n].text = tcall[n].A.response
                  /\ tout[n].response_a = tcall[n].A.response
                  /\ tout[n].response_b = tcall[n].B.response
                  /\ ~Falsy(tout[n].text)

\* the trio nested in C raised TrioError and the root trio returned A's text
C26_Witness ==
    /\ trio_nested = "C"
    /\ tpc[2] = "raised"
    /\ tpc[1] = "returned"
    /\ NoSynthesis(1)
    /\ tout[1].text = LeafText(1, "A")
    /\ tout[1].response_b = LeafText(1, "B")

\* aggregate() returned the result of one of the methods without votes
NonVotingResult ==
    /\ pc = "done"
    /\ agg_result.method \in {"random", "judge", "synthesize"}

\* C31 as stated: for the methods random, judge and synthesize the
\* outcome's acceptance_counts and preference_counts are empty, for every
\* candidate list.
C31_CountsEmpty ==
    NonVotingResult =>
        /\ agg_result.acceptance_counts = <<>>
        /\ agg_result.preference_counts = <<>>

\* C31, amended: for the methods random, judge and synthesize both arrays
\* hold one zero per candidate; they are empty only for an empty candidate
\* list.
C31_CountsZeroPerCandidate ==
    NonVotingResult =>
        /\ agg_result.acceptance_counts = Zeros(Len(valid_responses))
        /\ agg_result.preference_counts = Zeros(Len(valid_responses))

\* a random choice among three candidates, with three zeros in each array
C31_Witness ==
    /\ NonVotingResult
    /\ agg_result.method = "random"
    /\ Len(valid_responses) = 3
    /\ agg_result.acceptance_counts = <<0, 0, 0>>
    /\ agg_result.preference_counts = <<0, 0, 0>>

\* the nested ensemble of the request breaks the size limit or lacks the
\* companion model of its method
NestedViolation ==
    /\ entry = "chat_completions"
    /\ request.model.kind = "ensemble"
    /\ LET inner == request.model.nested
       IN  \/ inner.ensemble > MAX_ENSEMBLE_SIZE
           \/ inner.aggregation_method = "judge" /\ inner.judge_model = "none"
           \/ /\ inner.aggregation_method = "synthesize"
              /\ inner.synthesize_model = "none"

\* C32: validation applies to every ensemble node of the request, not only
\* the root: a nested ensemble with more than 9 members, or with method
\* judge or synthesize and no companion model, makes the request fail with
\* a validation error (400 or 422) before any Backend Call.
C32_NestedEnsembleValidated ==
    (ApiDone /\ ~request.stream /\ NestedViolation) =>
        /\ http_status \in {400, 422}
        /\ NoBackendCall

\* the ensemble object of the request has no members
EmptyEnsembleRequest ==
    /\ entry = "chat_completions"
    /\ request.model.kind = "ensemble"
    /\ request.model.spec.ensemble = 0

\* C33: a request whose ensemble has zero members is rejected with a
\* validation error (422) before any Backend Call is made; it never
\* reaches dispatch: the handler goes on only with an ensemble of at least
\* one member, whether it came with the request or from the registry.
C33_EmptyEnsembleRejected ==
    /\ EmptyEnsembleRequest =>
          /\ pc \in {"called", "raised"}
          /\ NoBackendCall
          /\ pc = "raised" =>
                http_status = 422 /\ outcome = Raised("HTTPException")
    /\ (/\ entry = "chat_completions"
        /\ pc = "resolved" \/ outcome = Raised("TypeError")) =>
          ensemble_size >= 1

\* the request {"ensemble": [], "aggregation_method": "random"} answered 422
C33_Witness ==
    /\ EmptyEnsembleRequest
    /\ ~request.stream
    /\ request.model.spec.aggregation_method = "random"
    /\ pc = "raised"
    /\ http_status = 422

\* the other one of the two generating members
OtherSlot(s) == IF s = "A" THEN "B" ELSE "A"

\* the nested trio has finished: it returned a text or raised TrioError
NestedFinished == tpc[2] \in {"returned", "raised"}

\* C34: in trio_completion a nested trio member is evaluated completely
\* before the parent proceeds, and the parent sees of it only a text or a
\* failure; a nested trio all of whose members fail counts as one failed
\* member of the parent, which still returns its other member's text.
C34_NestedTrioResolvedFirst ==
    \A s \in {"A", "B"} :
        (entry = "trio_completion" /\ IsNested(1, s)) =>
            /\ tcall[1][s].st = "settled" => NestedFinished
            /\ tpc[1] \in {"synth", "returned", "raised"} =>
                  /\ NestedFinished
                  /\ tcall[1][s] =
                        IF tpc[2] = "returned"
                        THEN Member("settled", tout[2].text, "None")
                        ELSE Member("settled", NoText, "All models failed")
            /\ (/\ tpc[1] \in {"returned", "raised"}
                /\ tpc[2] = "raised"
                /\ ~Falsy(tcall[1][OtherSlot(s)].response)) =>
                  /\ tout[1].kind = "returned"
                  /\ tout[1].text = LeafText(1, OtherSlot(s))
                  /\ tcall[1].C.st = "idle"

\* the nested trio in slot A raised after both of its members failed, and
\* the parent returned the text of its member B
C34_Witness ==
    /\ entry = "trio_completion"
    /\ trio_nested = "A"
    /\ tpc[2] = "raised"
    /\ tout[2].error_a \in ErrorKinds /\ tout[2].error_b \in ErrorKinds
    /\ tpc[1] = "returned"
    /\ tout[1].text = LeafText(1, "B")

\* the results of _generate_member_response: those of the members A and B
MemberResults ==
    {tcall[n][s] : n \in Nodes, s \in {"A", "B"}} \ {MemberIdle, MemberPending}

\* C35: every result of _generate_member_response has exactly one of
\* response and failure reason set (not None): a response, possibly the
\* empty text of a whitespace-only reply, and no error on success; an error
\* message and no response on failure; never both and never neither.
C35_ResponseOrError ==
    \A m \in MemberResults :
        /\ (m.response = NoText) # (m.error = "None")
        /\ m.error = "None" \/ m.error \in ErrorKinds
                            \/ m.error = "All models failed"

\* member A failed with an error message, member B answered
C35_Witness ==
    /\ entry = "trio_completion"
    /\ trio_nested = "none"
    /\ tcall[1].A.st = "settled" /\ tcall[1].B.st = "settled"
    /\ tcall[1].A.response = NoText /\ tcall[1].A.error \in ErrorKinds
    /\ tcall[1].B.response = LeafText(1, "B") /\ tcall[1].B.error = "None"
    /\ tpc[1] = "gen"

\* an aggregation Backend Call (vote, judge or synthesize) has been issued
AggregationStarted ==
    \/ agg_calls > 0
    \/ voter # <<>>
    \/ judge_call # "idle"
    \/ synth_call # "idle"

\* C36: in voting_completion no aggregation Backend Call (vote, judge or
\* synthesize) is issued before every generation call of the node has
\* settled, and in trio_completion member C is not called before both A and
\* B have settled.
C36_AggregationAfterGeneration ==
    /\ (entry = "voting_completion" /\ AggregationStarted) =>
          \A i \in 1..ensemble_size : gen[i] \in Settled
    /\ \A n \in Nodes :
          tcall[n].C.st # "idle" =>
              tcall[n].A.st = "settled" /\ tcall[n].B.st = "settled"

\* the judge is being asked after three members settled, one of them blank
C36_Witness ==
    /\ entry = "voting_completion"
    /\ pc = "judging"
    /\ judge_call = "pending"
    /\ gen = <<"ok", "ok", "blank">>
    /\ completed = <<3, 2, 1>>

\* voting_completion returned an outcome that names a winner
WinnerReturned ==
    /\ entry = "voting_completion"
    /\ pc = "done"
    /\ outcome.kind = "returned"
    /\ outcome.winner_index >= 0

\* the members whose generation call gave a response, in declaration order
SucceededMembers ==
    SelectSeq([i \in 1..ensemble_size |-> i], LAMBDA i : gen[i] = "ok")

\* C37: whenever voting_completion returns an outcome with winner_index >=
\* 0, winner_index is smaller than the number of candidates and the
\* returned text is candidates[winner_index].response; the candidates are
\* exactly the members that succeeded.
C37_WinnerIsACandidate ==
    WinnerReturned =>
        /\ outcome.winner_index < Len(outcome.candidates)
        /\ outcome.text = outcome.candidates[outcome.winner_index + 1].response
        /\ [k \in 1..Len(outcome.candidates) |-> outcome.candidates[k].model]
              = SucceededMembers

\* of three members the second gave no response; the judge chose the
\* second candidate, which is member 3
C37_Witness ==
    /\ WinnerReturned
    /\ method = "judge"
    /\ gen = <<"ok", "blank", "ok">>
    /\ outcome.winner_index = 1
    /\ outcome.text = Resp(3)

\* C38: for every conversation, the question shown to the voters and to
\* the judge is the same user content that was sent to the ensemble members
\* for generation.
C38_SameQuestion ==
    (pc = "sent" /\ entry \in {"get_voter_votes", "aggregate_judge"}) =>
        question = UserMessage(messages)

\* a voter's Backend Call ended in a typed failure
SomeVoterFailed == \E v \in 1..Len(voter) : voter[v].st \in ErrorKinds

\* C39: a voter whose Backend Call ends in a typed failure contributes an
\* empty vote: acceptance voting still completes with the tallies of the
\* other voters and the node returns a winner, with no error reaching the
\* caller.
C39_FailedVoterTolerated ==
    (/\ entry = "voting_completion"
     /\ pc \in {"done", "raised"}
     /\ SomeVoterFailed) =>
        /\ pc = "done"
        /\ outcome.kind = "returned"
        /\ outcome.winner_index >= 0
        /\ \A v \in 1..Len(voter) :
              voter[v].st \in ErrorKinds => voter[v].vote = EmptyVote

(***************************************************************************)
(* Specification SpecLive: the requests of Spec under the assumption that  *)
(* every Backend Call eventually settles.  The event loop runs every       *)
(* coroutine that is ready, so a step that is enabled (a call settling, a  *)
(* gather resolving, a handler going on) is eventually taken.              *)
(***************************************************************************)
InitLive ==
    /\ Init
    /\ ensemble_size <= LiveEnsemble
    /\ n_cand <= LiveEnsemble

SpecLive == InitLive /\ [][Next]_vars /\ WF_vars(Next)

\* the request has ended with a text or with an error
Completed ==
    /\ pc \in {"done", "raised"}
    /\ IF entry = "trio_completion" THEN tout[1].kind \in {"returned", "raised"}
       ELSE outcome.kind \in {"returned", "raised"}

\* C40: if every Backend Call eventually settles, every request over a
\* finite specification tree eventually completes with a text or an error:
\* no ensemble node, voting round or nested trio waits forever.
C40_EveryRequestCompletes == <>Completed

\* a trio whose member B is a nested trio that raised, completed with the
\* text of its member A
C40_Witness ==
    /\ Completed
    /\ entry = "trio_completion"
    /\ trio_nested = "B"
    /\ tpc[2] = "raised"
    /\ tout[1].kind = "returned"
    /\ tout[1].text = LeafText(1, "A")

====
